---- MODULE Spec2Model ----
(***************************************************************************)
(* Session lifecycle, per-user concurrency gate and message handlers of    *)
(* the Telegram relay (src/src/relay.ts), with its lock file, its registry *)
(* of child pids, the startup cleanup of orphans and callClaude.           *)
(*                                                                         *)
(* Strings are sequences of one-character strings, so that indexOf and     *)
(* substring are computed as the code computes them.  Timestamps are       *)
(* milliseconds since the start of the run: the code stores them as ISO    *)
(* strings (toISOString) and reads them back with new Date(..).getTime(),  *)
(* which keeps millisecond precision, the only precision Date.now() has.   *)
(***************************************************************************)
EXTENDS Integers, Sequences, FiniteSets, TLC

(* ---------------------------------------------------------------- bounds *)

\* Detached handler tasks one user can have at once (the gate keeps it at 1;
\* the bound only matters to a model whose gate is broken).
MaxTasks == 2
\* Clock ticks of TICK_MS each.
MaxTicks == 2
\* Relay instances launched.
MaxInstances == 2
\* Pids in the registry when an instance starts.
MaxRegistry == 2
\* Steps of the clock while an invocation or a cleanup is under way.
MaxElapses == 3
\* Archive tasks started in a run.
MaxArchives == 1

(* ------------------------------------------------------------- constants *)

\* relay.ts:106, parseInt(process.env.SESSION_MAX_MESSAGES || "30"): the
\* deployment modelled here sets SESSION_MAX_MESSAGES=2.
SESSION_MAX_MESSAGES == 2
\* relay.ts:107, default "30".
SESSION_IDLE_TIMEOUT_MIN == 30
\* relay.ts:181 is 50 * 1024; scaled down so that a session of a few short
\* entries crosses the cap.
TRANSCRIPT_MAX_BYTES == 24

IDLE_TIMEOUT_MS == SESSION_IDLE_TIMEOUT_MIN * 60 * 1000
\* One step of the clock: the idle timeout, so that an idle time of zero,
\* of exactly the timeout (one tick) and beyond it (two) all occur.
TICK_MS == IDLE_TIMEOUT_MS

NULL == "null"
NL == "\n"

\* relay.ts:471.
CLAUDE_TIMEOUT_MS == 5 * 60 * 1000
\* The delay of the forceful kill (relay.ts:342, 543).
GRACE_MS == 5000

\* Relay instances that may be launched against the same RELAY_DIR.
Instances == 1..MaxInstances
\* process.pid of each instance.
InstancePid(i) == 40 + i
\* The pid in a marker left behind by an instance that no longer runs.
StalePid == 7
\* Concurrent invocations of callClaude, and the pid of the child each spawns.
Calls == {"c1", "c2"}
PidOf(c) == IF c = "c1" THEN 101 ELSE 102
ChildPids == {101, 102}

\* Keys of USER_ROLES (relay.ts:33-64).
Users == {"8493500703", "8253689321"}
Kinds == {"text", "photo", "document"}
ChatId == "chat1"
SessionIds == {"s1", "s2"}

(* --------------------------------------------------------------- strings *)

Mot == <<"M", "o", "t">>
Rocky == <<"R", "o", "c", "k", "y">>
Assistant == <<"A", "s", "s", "i", "s", "t", "a", "n", "t">>
ImageTag == <<"[", "I", "m", "a", "g", "e", "]", " ">>
FileTag == <<"[", "F", "i", "l", "e", ":", " ", "f", "]", " ">>

\* getUserRole(userId)?.name || "User" for the two configured users.
UserNameOf(u) == IF u = "8493500703" THEN Mot ELSE Rocky

\* Message and reply texts of the main specification.
Texts == {<<"a">>}
Responses == {<<"b">>}
\* Texts of the transcript specification: empty, short, with a blank line
\* inside, ending in a newline, and longer than the cap.
RichTexts ==
    { <<>>, <<"a">>, <<"a", NL, NL, "b">>, <<"a", NL>>,
      [i \in 1..(TRANSCRIPT_MAX_BYTES + 1) |-> "x"] }

\* String.prototype.indexOf("\n\n", from), 0-based, -1 when absent.
IndexOfBlankLine(s, from) ==
    LET start == IF from < 0 THEN 0 ELSE from
        hits == {i \in start..(Len(s) - 2) : s[i + 1] = NL /\ s[i + 2] = NL}
    IN  IF hits = {} THEN -1 ELSE CHOOSE i \in hits : \A j \in hits : i <= j

\* String.prototype.substring(from), 0-based.
Substring(s, from) ==
    LET a == IF from < 0 THEN 0 ELSE IF from > Len(s) THEN Len(s) ELSE from
    IN  SubSeq(s, a + 1, Len(s))

\* `${name}: ${text}\n\n`
Entry(name, text) == name \o <<":", " ">> \o text \o <<NL, NL>>

\* Mutant of Truncate: the search for the cut starts at the beginning, so
\* only the oldest entry is dropped.
Truncate_DropOldest(tr) ==
    IF Len(tr) > TRANSCRIPT_MAX_BYTES
    THEN LET cutPoint == IndexOfBlankLine(tr, 0)
         IN  IF cutPoint > -1
             THEN Substring(tr, cutPoint + 2)
             ELSE Substring(tr, Len(tr) - TRANSCRIPT_MAX_BYTES)
    ELSE tr

\* relay.ts:266-269 and 278-281.
Truncate(tr) ==
    IF Len(tr) > TRANSCRIPT_MAX_BYTES
    THEN LET cutPoint == IndexOfBlankLine(tr, Len(tr) - TRANSCRIPT_MAX_BYTES)
         IN  IF cutPoint > -1
             THEN Substring(tr, cutPoint + 2)
             ELSE Substring(tr, Len(tr) - TRANSCRIPT_MAX_BYTES)
    ELSE tr

\* The text a handler records for a message of each kind
\* (relay.ts:705, 788, 849).
MessageText(kind, text) ==
    CASE kind = "text" -> text
      [] kind = "photo" -> ImageTag \o text
      [] kind = "document" -> FileTag \o text

(* ----------------------------------------------------------------- state *)

VARIABLES
    now,        \* Date.now(), in ms
    session,    \* the module-level `session`
    disk,       \* content of session.json, or NoFile
    tasks,      \* the detached handler tasks (the async IIFEs), per user
    active,     \* activeRequests
    disp,       \* the polling loop: the handler it is awaiting, if any
    appended,   \* history: the entries appended since the session opened
    nTracked,   \* history: trackMessage recordings since the last close
    lock,       \* content of bot.lock, or NoFile
    inst,       \* the relay instances (operating-system processes)
    children,   \* content of children.json (the pid registry), or NoFile
    procs,      \* the assistant's child processes, by pid
    timers,     \* the pending setTimeout callbacks
    calls,      \* the invocations of callClaude
    cleanup,    \* cleanupOrphanedProcesses: where it is suspended
    sent,       \* history: the signals sent to child processes
    supabase,   \* whether the Supabase client is configured
    archive     \* the detached archive tasks of closeSession

\* Files other than session.json, and processes.
processVars == <<lock, inst, children, procs, timers, calls, cleanup, sent>>
\* All that the session operations and the message handlers but closeSession
\* leave alone.
hostVars == <<processVars, supabase, archive>>

vars == <<now, session, disk, tasks, active, disp, appended, nTracked,
          lock, inst, children, procs, timers, calls, cleanup, sent,
          supabase, archive>>

\* readFile fails with ENOENT until the first write.
NoFile == [missing |-> TRUE]

newSessionState(t) ==
    [ sessionId |-> NULL,
      lastActivity |-> t,
      messageCount |-> 0,
      transcript |-> <<>>,
      chatId |-> NULL,
      userIds |-> <<>>,
      startedAt |-> t ]

\* A handler task: where it is suspended (pc), the message it handles, the
\* JSON text of the write it awaits (buf), closeSession's reason and result
\* (reason, ret), closeSession's copy of the session it closes (snap) and
\* callClaude's result (resp).
NewTask(kind, text) ==
    [ pc |-> "typing", kind |-> kind, text |-> text,
      buf |-> NULL, reason |-> NULL, ret |-> 0, snap |-> NoFile,
      resp |-> <<>> ]

Poll == [pc |-> "poll", user |-> NULL, buf |-> NULL, ret |-> 0,
         snap |-> NoFile]

\* The relay's own state when the message handlers start.
InitRelay ==
    /\ now = 0
    /\ session = newSessionState(0)
    /\ disk = NoFile
    /\ tasks = [u \in Users |-> <<>>]
    /\ active = [u \in Users |-> FALSE]
    /\ disp = Poll
    /\ appended = <<>>
    /\ nTracked = 0

\* The archive task closeSession starts (relay.ts:200-212): it awaits the
\* insert of the row. inserts, summaries and updates count the calls made.
ArchiveTask(snapshot, count, reason) ==
    [ pc |-> "insert", conversation_id |-> snapshot.sessionId,
      chat_id |-> snapshot.chatId, user_ids |-> snapshot.userIds,
      transcript |-> snapshot.transcript, message_count |-> count,
      close_reason |-> reason, summary |-> NULL, logged |-> FALSE,
      inserts |-> 1, summaries |-> 0, updates |-> 0 ]

\* closeSession's copy of the session (relay.ts:191); it is read only when
\* Supabase is configured, and kept only then.
Snapshot(s) == IF supabase THEN s ELSE NoFile

\* if (supabase && snapshot.transcript.length > 0) (relay.ts:200).
Archives(snapshot) == supabase /\ Len(snapshot.transcript) > 0

\* Mutant of Dispatched: the archive task reads the live session, not the
\* copy made before the swap.
Dispatched_Live(snapshot, count, reason) ==
    IF supabase /\ Len(session.transcript) > 0
    THEN Append(archive, ArchiveTask(session, session.messageCount, reason))
    ELSE archive

\* The archive tasks after closeSession's write has landed (relay.ts:200-237).
Dispatched(snapshot, count, reason) ==
    IF Archives(snapshot)
    THEN Append(archive, ArchiveTask(snapshot, count, reason))
    ELSE archive

\* The bound on the archive tasks of a run.
CanDispatch(snapshot) == Archives(snapshot) => Len(archive) < MaxArchives

\* A relay instance before it is launched.
\* code is the exit status, -1 while there is none.
NotLaunched == [pc |-> "off", seen |-> NoFile, ret |-> FALSE, code |-> -1]
\* An invocation of callClaude that has not been made.
\* pids is the array registerChildPid or unregisterChildPid is about to
\* write, sbuf the JSON text of the session write it awaits, outcome and sid
\* what the child left behind, audits the number of appends to the audit log
\* it has attempted and auditOk whether the append went through; asked is
\* options.resume, and resume the value that follows --resume in the
\* child's arguments, NULL when the option is not passed.
NoCall ==
    [ pc |-> "idle", internal |-> FALSE, pids |-> <<>>, sbuf |-> NoFile,
      timedOut |-> FALSE, outcome |-> NULL, sid |-> NULL, result |-> NULL,
      audits |-> 0, auditOk |-> TRUE, asked |-> FALSE, resume |-> NULL ]
CleanupIdle == [pc |-> "idle", pids |-> <<>>]

\* A host with no lock marker, no registry file and no process.
InitHost ==
    /\ lock = NoFile
    /\ inst = [i \in Instances |-> NotLaunched]
    /\ children = NoFile
    /\ procs = [p \in ChildPids |-> "none"]
    /\ timers = <<>>
    /\ calls = [c \in Calls |-> NoCall]
    /\ cleanup = CleanupIdle
    /\ sent = <<>>
    /\ supabase = FALSE
    /\ archive = <<>>

Init == InitRelay /\ InitHost

(* ------------------------------------------------- session lifecycle *)

Range(f) == {f[i] : i \in DOMAIN f}

\* Mutants of shouldCloseSession: the idle test made non-strict, and the
\* limit test made strict.
shouldCloseSession_IdleAtTimeout ==
    IF session.messageCount >= SESSION_MAX_MESSAGES THEN "limit"
    ELSE IF /\ session.messageCount > 0
            /\ now - session.lastActivity >= IDLE_TIMEOUT_MS
         THEN "idle"
         ELSE NULL

shouldCloseSession_LimitAboveMax ==
    IF session.messageCount > SESSION_MAX_MESSAGES THEN "limit"
    ELSE IF /\ session.messageCount > 0
            /\ now - session.lastActivity > IDLE_TIMEOUT_MS
         THEN "idle"
         ELSE NULL

\* relay.ts:183-188.
shouldCloseSession ==
    IF session.messageCount >= SESSION_MAX_MESSAGES THEN "limit"
    ELSE IF /\ session.messageCount > 0
            /\ now - session.lastActivity > IDLE_TIMEOUT_MS
         THEN "idle"
         ELSE NULL

\* relay.ts:250-269: the session after trackMessage's update of it.
Recorded(s, text, userName, userId, chatId) ==
    [ s EXCEPT
        !.messageCount = @ + 1,
        !.lastActivity = now,
        !.chatId = chatId,
        !.userIds = IF userId \in Range(@) THEN @ ELSE Append(@, userId),
        !.startedAt = IF s.messageCount + 1 = 1 THEN now ELSE @,
        !.transcript = Truncate(@ \o Entry(userName, text)) ]

\* Mutant of Responded: a reply counted as a message.
Responded_Counting(s, response) ==
    [ s EXCEPT !.messageCount = @ + 1,
               !.transcript = Truncate(@ \o Entry(Assistant, response)) ]

\* Mutant of Responded: the closure test of trackMessage is made first.
Responded_Closing(s, response) ==
    IF shouldCloseSession # NULL
    THEN [newSessionState(now) EXCEPT
            !.transcript = Truncate(@ \o Entry(Assistant, response))]
    ELSE [s EXCEPT !.transcript = Truncate(@ \o Entry(Assistant, response))]

\* relay.ts:275-281: the session after trackResponse's update of it.
Responded(s, response) ==
    [s EXCEPT !.transcript = Truncate(@ \o Entry(Assistant, response))]

\* relay.ts:578-579: the session after callClaude stores a session id.
Assigned(s, sid) == [s EXCEPT !.sessionId = sid, !.lastActivity = now]

(* -------------------------------------------------- per-user concurrency *)

\* Mutant of isUserBusy: one flag for all users.
isUserBusy_Global(u) == \E v \in Users : active[v] = TRUE
\* Mutant of isUserBusy: the flag is never seen.
isUserBusy_Never(u) == FALSE
\* relay.ts:627-629.
isUserBusy(u) == active[u] = TRUE
\* Mutant of markUserBusy: the flag is not set.
markUserBusy_Forgot(u) == active
\* relay.ts:631-633.
markUserBusy(u) == [active EXCEPT ![u] = TRUE]
\* relay.ts:635-637.
markUserFree(u) == [active EXCEPT ![u] = FALSE]

SetTask(u, i, t) == [tasks EXCEPT ![u][i] = t]
DropTask(u, i) ==
    [tasks EXCEPT ![u] = SubSeq(@, 1, i - 1) \o SubSeq(@, i + 1, Len(@))]
TaskIds == {<<u, i>> \in Users \X (1..MaxTasks) : i <= Len(tasks[u])}

(* ------------------------------------------------------ the polling loop *)

\* bot.on("message:text" | "message:photo" | "message:document") while the
\* user is busy: the handler awaits the busy reply (relay.ts:688-691,
\* 751-754, 817-820).
Reject(u) ==
    /\ disp.pc = "poll"
    /\ isUserBusy(u)
    /\ disp' = [Poll EXCEPT !.pc = "busyReply", !.user = u]
    /\ UNCHANGED <<now, session, disk, tasks, active, appended, nTracked>>
    /\ UNCHANGED hostVars

BusyReplied ==
    /\ disp.pc = "busyReply"
    /\ disp' = Poll
    /\ UNCHANGED <<now, session, disk, tasks, active, appended, nTracked>>
    /\ UNCHANGED hostVars

\* The same handlers when the user is free: the flag is set and the detached
\* task runs up to its first await, the typing indicator (relay.ts:693-697,
\* 756-759, 822-825); the handler returns to the polling loop.
Admit(u, kind, text) ==
    /\ disp.pc = "poll"
    /\ ~isUserBusy(u)
    /\ Len(tasks[u]) < MaxTasks
    /\ active' = markUserBusy(u)
    /\ tasks' = [tasks EXCEPT ![u] = Append(@, NewTask(kind, text))]
    /\ UNCHANGED <<now, session, disk, disp, appended, nTracked>>
    /\ UNCHANGED hostVars

\* bot.command("new"): closeSession("manual") up to its await of saveSession
\* (relay.ts:645, 190-197).
NewCommand ==
    /\ disp.pc = "poll"
    /\ session' = newSessionState(now)
    /\ disp' = [pc |-> "newSave", user |-> NULL, buf |-> session',
                ret |-> session.messageCount,
                snap |-> Snapshot(session)]
    /\ appended' = <<>>
    /\ nTracked' = 0
    /\ UNCHANGED <<now, disk, tasks, active>>
    /\ UNCHANGED hostVars

\* The write of the empty session lands; closeSession returns and the
\* handler awaits its reply (relay.ts:197, 239, 646-650).
NewSaved ==
    /\ disp.pc = "newSave"
    /\ CanDispatch(disp.snap)
    /\ disk' = disp.buf
    /\ archive' = Dispatched(disp.snap, disp.ret, "manual")
    /\ disp' = [disp EXCEPT !.pc = "newReply", !.buf = NULL, !.snap = NoFile]
    /\ UNCHANGED <<now, session, tasks, active, appended, nTracked>>
    /\ UNCHANGED <<processVars, supabase>>

NewReplied ==
    /\ disp.pc = "newReply"
    /\ disp' = Poll
    /\ UNCHANGED <<now, session, disk, tasks, active, appended, nTracked>>
    /\ UNCHANGED hostVars

(* ------------------------------------------------------ the handler task *)

\* A photo or document task goes on to fetch the file (relay.ts:766-778,
\* 831-840).
Typed(u, i) ==
    /\ <<u, i>> \in TaskIds
    /\ tasks[u][i].pc = "typing"
    /\ tasks[u][i].kind # "text"
    /\ tasks' = SetTask(u, i, [tasks[u][i] EXCEPT !.pc = "download"])
    /\ UNCHANGED <<now, session, disk, active, disp, appended, nTracked>>
    /\ UNCHANGED hostVars

\* The typing indicator is awaited before the try block (relay.ts:697, 759,
\* 825): when it rejects, the task ends and nothing clears the flag.
TypingFailed(u, i) ==
    /\ <<u, i>> \in TaskIds
    /\ tasks[u][i].pc = "typing"
    /\ tasks' = DropTask(u, i)
    /\ UNCHANGED <<now, session, disk, active, disp, appended, nTracked>>
    /\ UNCHANGED hostVars

AtTrackMessage(t) ==
    \/ t.pc = "typing" /\ t.kind = "text"
    \/ t.pc = "download"

\* trackMessage up to its first await (relay.ts:242-271): either
\* closeSession's await of saveSession, or its own.
TrackMessage(u, i) ==
    /\ <<u, i>> \in TaskIds
    /\ AtTrackMessage(tasks[u][i])
    /\ LET t == tasks[u][i]
           closeReason == shouldCloseSession
           text == MessageText(t.kind, t.text)
       IN  IF closeReason # NULL
           THEN /\ session' = newSessionState(now)
                /\ tasks' = SetTask(u, i,
                      [t EXCEPT !.pc = "closing", !.buf = session',
                                !.reason = closeReason,
                                !.ret = session.messageCount,
                                !.snap = Snapshot(session)])
                /\ appended' = <<>>
                /\ nTracked' = 0
           ELSE /\ session' = Recorded(session, text, UserNameOf(u), u, ChatId)
                /\ tasks' = SetTask(u, i,
                      [t EXCEPT !.pc = "tracking", !.buf = session'])
                /\ appended' = Append(appended, Entry(UserNameOf(u), text))
                /\ nTracked' = nTracked + 1
    /\ UNCHANGED <<now, disk, active, disp>>
    /\ UNCHANGED hostVars

\* closeSession's write lands and it returns; trackMessage goes on to update
\* the session and awaits its own write (relay.ts:197, 239, 250-271).
CloseSaved(u, i) ==
    /\ <<u, i>> \in TaskIds
    /\ tasks[u][i].pc = "closing"
    /\ LET t == tasks[u][i]
           text == MessageText(t.kind, t.text)
       IN  /\ CanDispatch(t.snap)
           /\ disk' = t.buf
           /\ archive' = Dispatched(t.snap, t.ret, t.reason)
           /\ session' = Recorded(session, text, UserNameOf(u), u, ChatId)
           /\ tasks' = SetTask(u, i,
                 [t EXCEPT !.pc = "tracking", !.buf = session',
                           !.snap = NoFile])
           /\ appended' = Append(appended, Entry(UserNameOf(u), text))
           /\ nTracked' = nTracked + 1
    /\ UNCHANGED <<now, active, disp>>
    /\ UNCHANGED <<processVars, supabase>>

\* trackMessage's write lands; the task awaits buildPrompt (relay.ts:271,
\* 706, 790, 851).
TrackSaved(u, i) ==
    /\ <<u, i>> \in TaskIds
    /\ tasks[u][i].pc = "tracking"
    /\ disk' = tasks[u][i].buf
    /\ tasks' = SetTask(u, i, [tasks[u][i] EXCEPT !.pc = "prompt", !.buf = NULL])
    /\ UNCHANGED <<now, session, active, disp, appended, nTracked>>
    /\ UNCHANGED hostVars

\* Mutant of CallClaude: the assistant is invoked before trackMessage.
CallClaude_Unrecorded(u, i) ==
    /\ <<u, i>> \in TaskIds
    /\ AtTrackMessage(tasks[u][i])
    /\ tasks' = SetTask(u, i, [tasks[u][i] EXCEPT !.pc = "claude"])
    /\ UNCHANGED <<now, session, disk, active, disp, appended, nTracked>>
    /\ UNCHANGED hostVars

\* callClaude is entered and awaits the child (relay.ts:707, 473-553).
CallClaude(u, i) ==
    /\ <<u, i>> \in TaskIds
    /\ tasks[u][i].pc = "prompt"
    /\ tasks' = SetTask(u, i, [tasks[u][i] EXCEPT !.pc = "claude"])
    /\ UNCHANGED <<now, session, disk, active, disp, appended, nTracked>>
    /\ UNCHANGED hostVars

\* The child's output arrives (relay.ts:564-590).  With a session_id in it
\* the session is updated and saved; sid = NULL stands for every outcome
\* that stores no session id.
ClaudeOutput(u, i, sid, resp) ==
    /\ <<u, i>> \in TaskIds
    /\ tasks[u][i].pc = "claude"
    /\ IF sid # NULL
       THEN /\ session' = Assigned(session, sid)
            /\ tasks' = SetTask(u, i,
                  [tasks[u][i] EXCEPT !.pc = "sidsave", !.buf = session',
                                      !.resp = resp])
       ELSE /\ session' = session
            /\ tasks' = SetTask(u, i,
                  [tasks[u][i] EXCEPT !.pc = "unregister", !.resp = resp])
    /\ UNCHANGED <<now, disk, active, disp, appended, nTracked>>
    /\ UNCHANGED hostVars

\* relay.ts:580, then the finally block's unregisterChildPid (592).
SessionIdSaved(u, i) ==
    /\ <<u, i>> \in TaskIds
    /\ tasks[u][i].pc = "sidsave"
    /\ disk' = tasks[u][i].buf
    /\ tasks' = SetTask(u, i,
          [tasks[u][i] EXCEPT !.pc = "unregister", !.buf = NULL])
    /\ UNCHANGED <<now, session, active, disp, appended, nTracked>>
    /\ UNCHANGED hostVars

\* callClaude returns; trackResponse up to its await of saveSession
\* (relay.ts:708, 274-283).
TrackResponse(u, i) ==
    /\ <<u, i>> \in TaskIds
    /\ tasks[u][i].pc = "unregister"
    /\ session' = Responded(session, tasks[u][i].resp)
    /\ tasks' = SetTask(u, i,
          [tasks[u][i] EXCEPT !.pc = "respsave", !.buf = session'])
    /\ appended' = Append(appended, Entry(Assistant, tasks[u][i].resp))
    /\ UNCHANGED <<now, disk, active, disp, nTracked>>
    /\ UNCHANGED hostVars

\* trackResponse's write lands; the task awaits the delivery (relay.ts:283,
\* 709, 796-798, 856-858).
ResponseSaved(u, i) ==
    /\ <<u, i>> \in TaskIds
    /\ tasks[u][i].pc = "respsave"
    /\ disk' = tasks[u][i].buf
    /\ tasks' = SetTask(u, i, [tasks[u][i] EXCEPT !.pc = "send", !.buf = NULL])
    /\ UNCHANGED <<now, session, active, disp, appended, nTracked>>
    /\ UNCHANGED hostVars

\* An await inside the try block rejects: a file fetch, a write of
\* session.json, the delivery.  The catch block awaits the apology
\* (relay.ts:710-712, 799-801, 859-861).
Failed(u, i) ==
    /\ <<u, i>> \in TaskIds
    /\ tasks[u][i].pc \in {"download", "closing", "tracking", "respsave", "send"}
    /\ tasks' = SetTask(u, i, [tasks[u][i] EXCEPT !.pc = "apology", !.buf = NULL])
    /\ UNCHANGED <<now, session, disk, active, disp, appended, nTracked>>
    /\ UNCHANGED hostVars

\* The delivery or the apology is done; the finally block clears the flag
\* (relay.ts:713-716, 802-805, 862-865).
Finished(u, i) ==
    /\ <<u, i>> \in TaskIds
    /\ tasks[u][i].pc \in {"send", "apology"}
    /\ active' = markUserFree(u)
    /\ tasks' = DropTask(u, i)
    /\ UNCHANGED <<now, session, disk, disp, appended, nTracked>>
    /\ UNCHANGED hostVars

\* Mutant of Tick: a background timer closes a session that has been idle
\* for longer than the timeout.
Tick_IdleClose ==
    /\ now < MaxTicks * TICK_MS
    /\ now' = now + TICK_MS
    /\ session' = IF /\ session.messageCount > 0
                     /\ now' - session.lastActivity > IDLE_TIMEOUT_MS
                  THEN newSessionState(now')
                  ELSE session
    /\ UNCHANGED <<disk, tasks, active, disp, appended, nTracked>>
    /\ UNCHANGED hostVars

\* Time passes.
Tick ==
    /\ now < MaxTicks * TICK_MS
    /\ now' = now + TICK_MS
    /\ UNCHANGED <<session, disk, tasks, active, disp, appended, nTracked>>
    /\ UNCHANGED hostVars

(* ------------------------------------------------------- files and pids *)

\* An existing file and what it holds.
File(content) == [missing |-> FALSE, content |-> content]

Digits == <<"0", "1", "2", "3", "4", "5", "6", "7", "8", "9">>
IsDigit(ch) == \E d \in 0..9 : Digits[d + 1] = ch
DigitValue(ch) == CHOOSE d \in 0..9 : Digits[d + 1] = ch
NaN == -1

\* Number.prototype.toString() of a natural number.
RECURSIVE toString(_)
toString(n) ==
    IF n < 10 THEN <<Digits[n + 1]>>
    ELSE toString(n \div 10) \o <<Digits[(n % 10) + 1]>>

RECURSIVE ParseDigits(_, _)
ParseDigits(s, acc) ==
    IF s = <<>> \/ ~IsDigit(Head(s)) THEN acc
    ELSE ParseDigits(Tail(s), acc * 10 + DigitValue(Head(s)))

\* parseInt(s) of a text without sign or leading blanks: the value of the
\* leading digits, NaN when there is none.
parseInt(s) ==
    IF s = <<>> \/ ~IsDigit(Head(s)) THEN NaN ELSE ParseDigits(s, 0)

\* An instance is a live process from its launch to its exit.
InstanceAlive(i) == inst[i].pc \notin {"off", "exited"}

\* A child after spawn (relay.ts:511-520) is "running", with both pipes open;
\* "quiet" when it has closed its standard output and runs on; "drained"
\* when it has closed both pipes and runs on; "lingering" when it has exited
\* and a process it started still holds its standard error; "exited" when
\* it has exited and both pipes are at their end.
LiveStates == {"running", "quiet", "drained"}
\* new Response(proc.stdout).text() settles when the pipe is at its end
\* (relay.ts:551), and so does the read of proc.stderr (relay.ts:564).
StdoutEnded(state) == state \in {"quiet", "drained", "lingering", "exited"}
StderrEnded(state) == state \in {"drained", "exited"}

\* process.kill(pid, 0) returns (TRUE) or throws (FALSE): whether a live
\* process has this pid (relay.ts:322, 336, 362, 537).
kill0(pid) ==
    \/ \E i \in Instances : InstancePid(i) = pid /\ InstanceAlive(i)
    \/ \E p \in ChildPids : p = pid /\ procs[p] \in LiveStates

(* ------------------------------------------------------------ lock file *)

lockVars == <<lock, inst>>
notLock == <<now, session, disk, tasks, active, disp, appended, nTracked,
             children, procs, timers, calls, cleanup, sent, supabase, archive>>

\* The instance is launched and runs to acquireLock's readFile
\* (relay.ts:405-435, 357).
Launch(i) ==
    /\ inst[i].pc = "off"
    /\ inst' = [inst EXCEPT ![i].pc = "lockRead"]
    /\ UNCHANGED lock
    /\ UNCHANGED notLock

\* readFile settles: the marker's text, or null when there is no file
\* (relay.ts:357).
LockRead(i) ==
    /\ inst[i].pc = "lockRead"
    /\ inst' = [inst EXCEPT ![i].pc = "lockProbe", ![i].seen = lock]
    /\ UNCHANGED lock
    /\ UNCHANGED notLock

\* Mutant of LockHeldByLive: any marker with a text refuses the caller.
LockHeldByLive_AnyMarker(seen) == ~seen.missing /\ seen.content # <<>>

\* if (existingLock) { ... process.kill(pid, 0) ... } of relay.ts:359-368:
\* TRUE when acquireLock returns false.  A missing file and an empty text are
\* falsy.
LockHeldByLive(seen) ==
    /\ ~seen.missing
    /\ seen.content # <<>>
    /\ kill0(parseInt(seen.content))

\* acquireLock goes on with what it read: it returns false when the marker
\* names a live process, else it awaits the write of its own pid
\* (relay.ts:359-370).
LockProbe(i) ==
    /\ inst[i].pc = "lockProbe"
    /\ IF LockHeldByLive(inst[i].seen)
       THEN inst' = [inst EXCEPT ![i].pc = "refused", ![i].ret = FALSE]
       ELSE inst' = [inst EXCEPT ![i].pc = "lockWrite"]
    /\ UNCHANGED lock
    /\ UNCHANGED notLock

\* writeFile lands and acquireLock returns true; startup goes on to the
\* orphan cleanup and to bot.start (relay.ts:370-371, 440-443).
LockWritten(i) ==
    /\ inst[i].pc = "lockWrite"
    /\ lock' = File(toString(InstancePid(i)))
    /\ inst' = [inst EXCEPT ![i].pc = "running", ![i].ret = TRUE]
    /\ UNCHANGED notLock

\* The refused instance calls process.exit(1); the "exit" handler unlinks
\* the lock file (relay.ts:435-438, 383-387).
ExitRefused(i) ==
    /\ inst[i].pc = "refused"
    /\ lock' = NoFile
    /\ inst' = [inst EXCEPT ![i].pc = "exited", ![i].code = 1]
    /\ UNCHANGED notLock

\* SIGINT or SIGTERM reaches a running instance: the handler awaits
\* notifyUsers (relay.ts:388-389, 394-395, 1066-1074).
Shutdown(i) ==
    /\ inst[i].pc = "running"
    /\ inst' = [inst EXCEPT ![i].pc = "notify"]
    /\ UNCHANGED lock
    /\ UNCHANGED notLock

\* notifyUsers returns, whether its messages went out or not; the handler
\* awaits saveChildPids([]) (relay.ts:390, 396, 1068-1072).
Notified(i) ==
    /\ inst[i].pc = "notify"
    /\ inst' = [inst EXCEPT ![i].pc = "clear"]
    /\ UNCHANGED lock
    /\ UNCHANGED notLock

\* The write of the empty registry lands; the handler awaits releaseLock's
\* unlink (relay.ts:390-391, 299-301, 378-380).
RegistryCleared(i) ==
    /\ inst[i].pc = "clear"
    /\ children' = File(<<>>)
    /\ inst' = [inst EXCEPT ![i].pc = "release"]
    /\ UNCHANGED <<now, session, disk, tasks, active, disp, appended, nTracked,
                   lock, procs, timers, calls, cleanup, sent>>
    /\ UNCHANGED <<supabase, archive>>

\* The marker is unlinked and the handler calls process.exit(0)
\* (relay.ts:391-392, 383-387).
LockReleased(i) ==
    /\ inst[i].pc = "release"
    /\ lock' = NoFile
    /\ inst' = [inst EXCEPT ![i].pc = "exited", ![i].code = 0]
    /\ UNCHANGED notLock

\* The instance is killed outright (SIGKILL, power loss): no handler runs and
\* the marker stays.
Crash(i) ==
    /\ inst[i].pc = "running"
    /\ inst' = [inst EXCEPT ![i].pc = "exited", ![i].code = 137]
    /\ UNCHANGED lock
    /\ UNCHANGED notLock

(* -------------------------------------------------------- specifications *)

\* The three message handlers, for messages of the given users, kinds and
\* texts.
Handlers(users, kinds, texts) ==
    \/ \E u \in users : Reject(u)
    \/ BusyReplied
    \/ \E u \in users, kind \in kinds, text \in texts : Admit(u, kind, text)

\* The steps of a task whose awaits all resolve.
TaskSteps(u, i, sids, resps) ==
    \/ TrackMessage(u, i)
    \/ CloseSaved(u, i)
    \/ TrackSaved(u, i)
    \/ CallClaude(u, i)
    \/ \E sid \in sids, resp \in resps : ClaudeOutput(u, i, sid, resp)
    \/ TrackResponse(u, i)
    \/ ResponseSaved(u, i)
    \/ Finished(u, i)

NewSteps == NewCommand \/ NewSaved \/ NewReplied

Mot1 == {"8493500703"}

\* Two users' text messages; the assistant may report a session id; the
\* session closes at the message limit.
Next ==
    \/ Handlers(Users, {"text"}, Texts)
    \/ \E u \in Users, i \in 1..MaxTasks :
          \/ TaskSteps(u, i, {NULL, "s1"}, Responses)
          \/ SessionIdSaved(u, i)

Spec == Init /\ [][Next]_vars

\* Two users' text messages and the /new command.
NextClose ==
    \/ Handlers(Users, {"text"}, Texts)
    \/ \E u \in Users, i \in 1..MaxTasks : TaskSteps(u, i, {NULL}, Responses)
    \/ NewSteps

SpecClose == Init /\ [][NextClose]_vars

\* Two users' text messages while time passes.
NextIdle ==
    \/ Handlers(Users, {"text"}, Texts)
    \/ \E u \in Users, i \in 1..MaxTasks : TaskSteps(u, i, {NULL}, Responses)
    \/ Tick

SpecIdle == Init /\ [][NextIdle]_vars

\* One user's text messages and the assistant's replies, of every shape.
NextTranscript ==
    \/ Handlers(Mot1, {"text"}, RichTexts)
    \/ \E i \in 1..MaxTasks : TaskSteps("8493500703", i, {NULL}, RichTexts)

SpecTranscript == Init /\ [][NextTranscript]_vars

\* One user's messages of every kind, with awaits that reject.
NextGate ==
    \/ Handlers(Mot1, Kinds, Texts)
    \/ \E i \in 1..MaxTasks :
          \/ TaskSteps("8493500703", i, {NULL}, Responses)
          \/ Typed("8493500703", i)
          \/ TypingFailed("8493500703", i)
          \/ Failed("8493500703", i)

SpecGate == Init /\ [][NextGate]_vars

\* The same, where every await of a task settles in the end (it resolves or
\* it rejects).
SpecGateLive ==
    /\ SpecGate
    /\ WF_vars(\E i \in 1..MaxTasks :
                  \/ TaskSteps("8493500703", i, {NULL}, Responses)
                  \/ Typed("8493500703", i)
                  \/ TypingFailed("8493500703", i)
                  \/ Failed("8493500703", i))

\* One user's text messages and /new commands while time passes; the
\* assistant may report a session id.
NextSolo ==
    \/ Handlers(Mot1, {"text"}, Texts)
    \/ \E i \in 1..MaxTasks :
          \/ TaskSteps("8493500703", i, {NULL, "s1"}, Responses)
          \/ SessionIdSaved("8493500703", i)
    \/ NewSteps
    \/ Tick

SpecSolo == Init /\ [][NextSolo]_vars

(* -------------------------------------------------------------- restart *)

\* A session that an earlier run left in session.json (relay.ts:157-169).
ResumedSession ==
    [ sessionId |-> "s2",
      lastActivity |-> 0,
      messageCount |-> 1,
      transcript |-> Entry(Mot, <<"a">>),
      chatId |-> ChatId,
      userIds |-> <<"8493500703">>,
      startedAt |-> 0 ]

\* session.json after a write that was cut short: readFile succeeds and
\* JSON.parse throws.
Corrupt == [unreadable |-> TRUE]
\* A record written before the transcript was kept in the session.
LegacyRecord == [sessionId |-> "s2", lastActivity |-> 0]

\* A field of the parsed record, or of the fresh session when the record
\* lacks it: the spread { ...newSessionState(), ...parsed } (relay.ts:165).
Field(parsed, f, fresh) == IF f \in DOMAIN parsed THEN parsed[f] ELSE fresh[f]

\* Mutant of loadSession: the record is read and the fresh session kept.
loadSession_Fresh(file, t) == newSessionState(t)
\* loadSession (relay.ts:157-169): a fresh session when the file is missing
\* or does not parse, else the record over the fresh session's fields.
loadSession(file, t) ==
    IF file = NoFile \/ file = Corrupt
    THEN newSessionState(t)
    ELSE [ sessionId |-> Field(file, "sessionId", newSessionState(t)),
           lastActivity |-> Field(file, "lastActivity", newSessionState(t)),
           messageCount |-> Field(file, "messageCount", newSessionState(t)),
           transcript |-> Field(file, "transcript", newSessionState(t)),
           chatId |-> Field(file, "chatId", newSessionState(t)),
           userIds |-> Field(file, "userIds", newSessionState(t)),
           startedAt |-> Field(file, "startedAt", newSessionState(t)) ]

\* Some saveSession has its writeFile under way.
WritePending ==
    \/ disp.pc = "newSave"
    \/ \E u \in Users : \E i \in DOMAIN tasks[u] :
          tasks[u][i].pc \in {"closing", "tracking", "sidsave", "respsave"}

\* The process dies (its tasks and the writes they await with it) and a new
\* instance loads the session (relay.ts:175). torn: a writeFile was under
\* way and leaves a file that does not parse.
Restart(torn) ==
    /\ torn => WritePending
    /\ disk' = IF torn THEN Corrupt ELSE disk
    /\ session' = loadSession(disk', now)
    /\ tasks' = [u \in Users |-> <<>>]
    /\ active' = [u \in Users |-> FALSE]
    /\ disp' = Poll
    /\ appended' = <<>>
    /\ nTracked' = session'.messageCount
    /\ UNCHANGED now
    /\ UNCHANGED hostVars

\* What session.json may hold when the first instance starts.
InitRestart ==
    /\ now = 0
    /\ disk \in {NoFile, Corrupt, LegacyRecord, ResumedSession}
    /\ session = loadSession(disk, 0)
    /\ tasks = [u \in Users |-> <<>>]
    /\ active = [u \in Users |-> FALSE]
    /\ disp = Poll
    /\ appended = <<>>
    /\ nTracked = session.messageCount
    /\ InitHost

\* Two users' text messages and session ids, with restarts.
NextRestart ==
    \/ Handlers(Users, {"text"}, {<<"a">>})
    \/ \E u \in Users, i \in 1..MaxTasks :
          \/ TaskSteps(u, i, {NULL, "s1"}, {<<"b">>})
          \/ SessionIdSaved(u, i)
    \/ \E torn \in BOOLEAN : Restart(torn)

SpecRestart == InitRestart /\ [][NextRestart]_vars

(* ----------------------------------------------------------- middleware *)

\* Mutant of Authorized: the middleware lets every user through.
Authorized_Anyone(allowed, u) == TRUE
\* The middleware's test (relay.ts:453-456): the allow-list is empty or has
\* the user.
Authorized(allowed, u) == ~(allowed # {} /\ u \notin allowed)

\* An update of a user who is not on the list, in a private chat: the
\* middleware awaits its reply and returns without calling next()
\* (relay.ts:456-461).
Unauthorized(allowed, u) ==
    /\ disp.pc = "poll"
    /\ ~Authorized(allowed, u)
    /\ disp' = [Poll EXCEPT !.pc = "privateReply", !.user = u]
    /\ UNCHANGED <<now, session, disk, tasks, active, appended, nTracked>>
    /\ UNCHANGED hostVars

PrivateReplied ==
    /\ disp.pc = "privateReply"
    /\ disp' = Poll
    /\ UNCHANGED <<now, session, disk, tasks, active, appended, nTracked>>
    /\ UNCHANGED hostVars

\* A message, or the /new command, of a user the middleware lets through
\* reaches its handler (relay.ts:464, 644, 676).
OnMessage(allowed, u, kind, text) ==
    /\ Authorized(allowed, u)
    /\ Reject(u) \/ Admit(u, kind, text)
OnNew(allowed, u) ==
    /\ Authorized(allowed, u)
    /\ NewCommand

\* TELEGRAM_USER_ID names the owner alone.
OwnerOnly == {"8493500703"}

\* Both users' messages and /new commands behind the middleware.
NextAuth ==
    \/ \E u \in Users : Unauthorized(OwnerOnly, u)
    \/ PrivateReplied
    \/ \E u \in Users, kind \in {"text", "photo"} :
          OnMessage(OwnerOnly, u, kind, <<"a">>)
    \/ BusyReplied
    \/ \E u \in Users : OnNew(OwnerOnly, u)
    \/ NewSaved
    \/ NewReplied
    \/ \E u \in Users, i \in 1..MaxTasks :
          TaskSteps(u, i, {NULL, "s1"}, Responses)
    \/ \E u \in Users, i \in 1..MaxTasks : SessionIdSaved(u, i)

SpecAuth == Init /\ [][NextAuth]_vars

(* ------------------------------------- child processes, signals, timers *)

\* The child with this pid is running.
Running(pid) == pid \in ChildPids /\ procs[pid] \in LiveStates

\* process.kill(pid, sig) or proc.kill(sig): what is sent, when, and whether
\* the target was running.
Signal(pid, sig) ==
    [pid |-> pid, sig |-> sig, at |-> now, alive |-> Running(pid)]

\* setTimeout(callback, ms): the callback of this kind, for this pid, due
\* ms from now.
Timer(kind, pid, ms) == [kind |-> kind, pid |-> pid, due |-> now + ms]

RemoveAt(seq, k) == SubSeq(seq, 1, k - 1) \o SubSeq(seq, k + 1, Len(seq))

\* Mutant of Due: a timer's callback may run as soon as it is set.
Due_AtOnce(t) == TRUE
\* The event loop runs a timer's callback at its due time or later.
Due(t) == t.due <= now

\* A running child exits: it has finished, or a SIGTERM made it stop.
ChildExits(p) ==
    /\ Running(p)
    /\ procs' = [procs EXCEPT ![p] = "exited"]
    /\ UNCHANGED <<now, session, disk, tasks, active, disp, appended, nTracked,
                   lock, inst, children, timers, calls, cleanup, sent>>
    /\ UNCHANGED <<supabase, archive>>

\* What a child may do to the pipes it was spawned with (relay.ts:512-513)
\* apart from writing and exiting: close its standard output and run on;
\* close its standard error after that; exit while a process it started
\* holds its standard error, which that process closes later.
ChildCloses(p) ==
    /\ \/ procs[p] = "running" /\ procs' = [procs EXCEPT ![p] = "quiet"]
       \/ procs[p] = "quiet" /\ procs' = [procs EXCEPT ![p] = "drained"]
       \/ procs[p] \in {"running", "quiet"}
             /\ procs' = [procs EXCEPT ![p] = "lingering"]
       \/ procs[p] = "lingering" /\ procs' = [procs EXCEPT ![p] = "exited"]
    /\ UNCHANGED <<now, session, disk, tasks, active, disp, appended, nTracked,
                   lock, inst, children, timers, calls, cleanup, sent>>
    /\ UNCHANGED <<supabase, archive>>

\* Time passes, up to the horizon.
Elapse(d, horizon) ==
    /\ now + d <= horizon
    /\ now' = now + d
    /\ UNCHANGED <<session, disk, tasks, active, disp, appended, nTracked>>
    /\ UNCHANGED hostVars

(* --------------------------------------------------------- pid registry *)

\* relay.ts:290-297: the pids in children.json, [] when the file cannot be
\* read.
loadChildPids == IF children.missing THEN <<>> ELSE children.content

\* Mutant of Orphans: every recorded pid is taken for alive.
Orphans_All(pids) == pids
\* The recorded pids whose probe finds a live process (relay.ts:320-326).
Orphans(pids) == SelectSeq(pids, kill0)

\* Startup reaches cleanupOrphanedProcesses, which awaits loadChildPids
\* (relay.ts:441, 315).
CleanupStart ==
    /\ cleanup.pc = "idle"
    /\ cleanup' = [cleanup EXCEPT !.pc = "load"]
    /\ UNCHANGED <<now, session, disk, tasks, active, disp, appended, nTracked,
                   lock, inst, children, procs, timers, calls, sent>>
    /\ UNCHANGED <<supabase, archive>>

\* The registry is read and the loop runs without suspension: a SIGTERM and
\* a 5-second timer for each live pid; then saveChildPids([]) is awaited.
\* With no pid recorded the function returns at once (relay.ts:315-346).
CleanupLoaded ==
    /\ cleanup.pc = "load"
    /\ LET pids == loadChildPids
           live == Orphans(pids)
       IN  IF Len(pids) = 0
           THEN /\ cleanup' = [pc |-> "done", pids |-> pids]
                /\ UNCHANGED <<sent, timers>>
           ELSE /\ cleanup' = [pc |-> "save", pids |-> pids]
                /\ sent' = sent \o
                      [k \in 1..Len(live) |-> Signal(live[k], "SIGTERM")]
                /\ timers' = timers \o
                      [k \in 1..Len(live) |-> Timer("orphan", live[k], GRACE_MS)]
    /\ UNCHANGED <<now, session, disk, tasks, active, disp, appended, nTracked,
                   lock, inst, children, procs, calls>>
    /\ UNCHANGED <<supabase, archive>>

\* The write of the empty registry lands (relay.ts:346).
CleanupSaved ==
    /\ cleanup.pc = "save"
    /\ children' = File(<<>>)
    /\ cleanup' = [cleanup EXCEPT !.pc = "done"]
    /\ UNCHANGED <<now, session, disk, tasks, active, disp, appended, nTracked,
                   lock, inst, procs, timers, calls, sent>>
    /\ UNCHANGED <<supabase, archive>>

\* The 5-second timer of an orphan runs: SIGKILL when the pid is still alive
\* (relay.ts:334-342).
OrphanEscalation(k) ==
    /\ k \in DOMAIN timers
    /\ timers[k].kind = "orphan"
    /\ Due(timers[k])
    /\ timers' = RemoveAt(timers, k)
    /\ IF kill0(timers[k].pid)
       THEN /\ sent' = Append(sent, Signal(timers[k].pid, "SIGKILL"))
            /\ procs' = [procs EXCEPT ![timers[k].pid] = "exited"]
       ELSE UNCHANGED <<sent, procs>>
    /\ UNCHANGED <<now, session, disk, tasks, active, disp, appended, nTracked,
                   lock, inst, children, calls, cleanup>>
    /\ UNCHANGED <<supabase, archive>>

(* ------------------------------------------------------------ callClaude *)

\* relay.ts:557, 596.
TimeoutText == "Claude timed out after 5 minutes. Please try again."
SpawnErrorText == "Error: Could not run Claude CLI"
\* What a child that has exited leaves behind: status 0 and a JSON record;
\* a nonzero status, a text on stderr and a JSON record on stdout; a nonzero
\* status and nothing on stderr; status 0 and output that is no JSON;
\* status 0 and a JSON value that is no record.
Outcomes == {"json", "nonzero", "silent", "raw", "scalar"}

ExitCode(outcome) ==
    CASE outcome = "nonzero" -> 1
      [] outcome = "silent" -> 2
      [] OTHER -> 0
Stderr(outcome) == IF outcome = "nonzero" THEN "boom" ELSE ""
\* The child's standard output, as the characters read from the pipe.
RecordText == <<"{", "}">>
Stdout(outcome) ==
    CASE outcome \in {"json", "nonzero"} -> RecordText
      [] outcome = "silent" -> <<>>
      [] outcome = "raw" -> <<" ", "o", "k", NL>>
      [] outcome = "scalar" -> <<"4", "2">>

\* JSON.parse of the output (relay.ts:574): it throws on a text that is no
\* JSON; a record has the fields the child wrote, any other JSON value has
\* neither a session_id nor a result.
JSONparse(text, sid) ==
    IF text = RecordText
    THEN [throws |-> FALSE, session_id |-> sid, result |-> "result"]
    ELSE IF Len(text) > 0 /\ \A k \in 1..Len(text) : IsDigit(text[k])
    THEN [throws |-> FALSE, session_id |-> NULL, result |-> ""]
    ELSE [throws |-> TRUE, session_id |-> NULL, result |-> ""]

\* String.prototype.trim and the text of a sequence of characters.
WhiteSpace == {" ", NL, "\t"}
RECURSIVE trimStart(_)
trimStart(text) ==
    IF text # <<>> /\ Head(text) \in WhiteSpace
    THEN trimStart(Tail(text))
    ELSE text
RECURSIVE trimEnd(_)
trimEnd(text) ==
    IF text # <<>> /\ text[Len(text)] \in WhiteSpace
    THEN trimEnd(SubSeq(text, 1, Len(text) - 1))
    ELSE text
trim(text) == trimEnd(trimStart(text))
RECURSIVE Join(_)
Join(text) == IF text = <<>> THEN "" ELSE Head(text) \o Join(Tail(text))

notCalls == <<now, tasks, active, disp, appended, nTracked,
              lock, inst, cleanup, supabase, archive>>

\* Mutant of ResumeArg: the internal option is not looked at.
ResumeArg_Internal(resume, internal) ==
    IF resume /\ session.sessionId # NULL THEN session.sessionId ELSE NULL
\* if (options?.resume && !options?.internal && session.sessionId)
\* args.push("--resume", session.sessionId) (relay.ts:480-482).
ResumeArg(resume, internal) ==
    IF resume /\ ~internal /\ session.sessionId # NULL
    THEN session.sessionId
    ELSE NULL

\* callClaude is called with these options: the arguments are built and
\* auditLog's append is awaited (relay.ts:473-508).
EnterWith(c, resume, internal) ==
    /\ calls[c].pc = "idle"
    /\ calls' = [calls EXCEPT ![c] =
          [NoCall EXCEPT !.pc = "audit",
                         !.internal = internal,
                         !.audits = 1,
                         !.asked = resume,
                         !.resume = ResumeArg(resume, internal)]]
    /\ UNCHANGED <<session, disk, children, procs, timers, sent>>
    /\ UNCHANGED notCalls

\* The calls the relay makes: the handlers ask for the resumption
\* (relay.ts:707, 792, 853), closeSession's summary is internal
\* (relay.ts:224).
Enter(c, internal) == EnterWith(c, ~internal, internal)

\* Mutant of AuditLogReturns: a failing append is not caught.
AuditLogReturns_Throws(ok) == ok
\* auditLog returns whether the append went through (ok) or failed: the
\* failure is caught and logged (relay.ts:612-619).
AuditLogReturns(ok) == TRUE

\* auditLog has returned after an append that went through or not; the
\* child is spawned and registerChildPid awaits loadChildPids
\* (relay.ts:502-523, 303-304).
SpawnAfterAudit(c, ok) ==
    /\ calls[c].pc = "audit"
    /\ AuditLogReturns(ok)
    /\ procs[PidOf(c)] = "none"
    /\ procs' = [procs EXCEPT ![PidOf(c)] = "running"]
    /\ calls' = [calls EXCEPT ![c].pc = "regRead", ![c].auditOk = ok]
    /\ UNCHANGED <<session, disk, children, timers, sent>>
    /\ UNCHANGED notCalls

Spawned(c) == \E ok \in BOOLEAN : SpawnAfterAudit(c, ok)

\* spawn throws: the outer catch returns the error text (relay.ts:511,
\* 594-597).
SpawnFailed(c) ==
    /\ calls[c].pc = "audit"
    /\ \E ok \in BOOLEAN :
          /\ AuditLogReturns(ok)
          /\ calls' = [calls EXCEPT ![c].pc = "returned",
                                    ![c].auditOk = ok,
                                    ![c].result = SpawnErrorText]
    /\ UNCHANGED <<session, disk, children, procs, timers, sent>>
    /\ UNCHANGED notCalls

\* registerChildPid has read the registry: it pushes the pid and awaits the
\* write of that array (relay.ts:304-306).
RegisterRead(c) ==
    /\ calls[c].pc = "regRead"
    /\ calls' = [calls EXCEPT ![c].pc = "regWrite",
                              ![c].pids = Append(loadChildPids, PidOf(c))]
    /\ UNCHANGED <<session, disk, children, procs, timers, sent>>
    /\ UNCHANGED notCalls

\* The write lands; the timeout is set and the race of the child's output
\* against it is awaited (relay.ts:306, 523-553).
RegisterWritten(c) ==
    /\ calls[c].pc = "regWrite"
    /\ children' = File(calls[c].pids)
    /\ timers' = Append(timers, Timer("timeout", PidOf(c), CLAUDE_TIMEOUT_MS))
    /\ calls' = [calls EXCEPT ![c].pc = "race", ![c].pids = <<>>]
    /\ UNCHANGED <<session, disk, procs, sent>>
    /\ UNCHANGED notCalls

\* Mutant of StoresSessionId: internal calls store the session id too.
StoresSessionId_Internal(outcome, sid, internal) ==
    /\ ExitCode(outcome) = 0
    /\ ~JSONparse(Stdout(outcome), sid).throws
    /\ JSONparse(Stdout(outcome), sid).session_id # NULL
\* relay.ts:567-577: the exit status is 0, the output is a JSON value with
\* a session_id and the call is not internal.
StoresSessionId(outcome, sid, internal) ==
    /\ ExitCode(outcome) = 0
    /\ ~JSONparse(Stdout(outcome), sid).throws
    /\ JSONparse(Stdout(outcome), sid).session_id # NULL
    /\ ~internal

\* Mutant of ResultOf: the text of stderr also when it is empty.
ResultOf_NoFallback(outcome) ==
    IF ExitCode(outcome) # 0
    THEN "Error: " \o Stderr(outcome)
    ELSE IF JSONparse(Stdout(outcome), NULL).throws
    THEN Join(trim(Stdout(outcome)))
    ELSE "result"
\* Mutant of ResultOf: the output as it is when it is no JSON.
ResultOf_Untrimmed(outcome) ==
    IF ExitCode(outcome) # 0
    THEN "Error: " \o Stderr(outcome)
    ELSE Join(Stdout(outcome))
\* What callClaude returns for a child that has exited (relay.ts:567-570,
\* 573-590): the error text for a nonzero status, the record's result or
\* "No response" for a JSON value, the trimmed output when JSON.parse
\* throws.
ResultOf(outcome) ==
    IF ExitCode(outcome) # 0
    THEN "Error: " \o (IF Stderr(outcome) # ""
                        THEN Stderr(outcome)
                        ELSE "Claude exited with code "
                                 \o Join(toString(ExitCode(outcome))))
    ELSE IF JSONparse(Stdout(outcome), NULL).throws
    THEN Join(trim(Stdout(outcome)))
    ELSE IF JSONparse(Stdout(outcome), NULL).result # ""
    THEN JSONparse(Stdout(outcome), NULL).result
    ELSE "No response"

\* Mutant of ClearTimeout: the timeout stays set.
ClearTimeout_Kept(pid) == timers
\* The timers but the pending timeout of this pid (clearTimeout,
\* relay.ts:561).
ClearTimeout(pid) ==
    SelectSeq(timers, LAMBDA t : ~(t.kind = "timeout" /\ t.pid = pid))

\* The child has exited and its output is complete: the race is won by the
\* output and the timeout cleared; the exit status and the output decide
\* what is returned, and a session_id of a call that is not internal is
\* stored and the session saved (relay.ts:550-590).
OutputArrives(c, outcome, sid) ==
    /\ calls[c].pc = "race"
    /\ procs[PidOf(c)] = "exited"
    /\ timers' = ClearTimeout(PidOf(c))
    /\ IF StoresSessionId(outcome, sid, calls[c].internal)
       THEN /\ session' = Assigned(session, sid)
            /\ calls' = [calls EXCEPT ![c].pc = "sidSave",
                                      ![c].sbuf = session',
                                      ![c].outcome = outcome,
                                      ![c].sid = sid,
                                      ![c].result = ResultOf(outcome)]
       ELSE /\ session' = session
            /\ calls' = [calls EXCEPT ![c].pc = "unregRead",
                                      ![c].outcome = outcome,
                                      ![c].sid = sid,
                                      ![c].result = ResultOf(outcome)]
    /\ UNCHANGED <<disk, children, procs, sent>>
    /\ UNCHANGED notCalls

\* The child's standard output is at its end while the child runs on or its
\* standard error is still held open: the race is won by the output, the
\* timeout is cleared and the read of proc.stderr is awaited
\* (relay.ts:550-564).
StdoutRead(c) ==
    /\ calls[c].pc = "race"
    /\ StdoutEnded(procs[PidOf(c)])
    /\ procs[PidOf(c)] # "exited"
    /\ timers' = ClearTimeout(PidOf(c))
    /\ calls' = [calls EXCEPT ![c].pc = "stderr"]
    /\ UNCHANGED <<session, disk, children, procs, sent>>
    /\ UNCHANGED notCalls

\* The child's standard error is at its end: proc.exited is awaited
\* (relay.ts:564-565).
StderrRead(c) ==
    /\ calls[c].pc = "stderr"
    /\ StderrEnded(procs[PidOf(c)])
    /\ calls' = [calls EXCEPT ![c].pc = "exit"]
    /\ UNCHANGED <<session, disk, children, procs, timers, sent>>
    /\ UNCHANGED notCalls

\* proc.exited settles: the exit status and the output decide what is
\* returned, as in OutputArrives (relay.ts:565-590).
ExitRead(c, outcome, sid) ==
    /\ calls[c].pc = "exit"
    /\ procs[PidOf(c)] = "exited"
    /\ IF StoresSessionId(outcome, sid, calls[c].internal)
       THEN /\ session' = Assigned(session, sid)
            /\ calls' = [calls EXCEPT ![c].pc = "sidSave",
                                      ![c].sbuf = session',
                                      ![c].outcome = outcome,
                                      ![c].sid = sid,
                                      ![c].result = ResultOf(outcome)]
       ELSE /\ session' = session
            /\ calls' = [calls EXCEPT ![c].pc = "unregRead",
                                      ![c].outcome = outcome,
                                      ![c].sid = sid,
                                      ![c].result = ResultOf(outcome)]
    /\ UNCHANGED <<disk, children, procs, timers, sent>>
    /\ UNCHANGED notCalls

\* The timeout's callback runs, which it does whenever the timer is still
\* set at its due time: timedOut is set, SIGTERM is sent and a timer is set
\* for the forceful kill.  The rejection loses the race for an invocation
\* that awaits it, which is then on its way out with the timeout text
\* (relay.ts:530-545, 554-562, 592); a settled race ignores it.
TimeoutFires(c, k) ==
    /\ k \in DOMAIN timers
    /\ timers[k].kind = "timeout"
    /\ timers[k].pid = PidOf(c)
    /\ Due(timers[k])
    /\ sent' = Append(sent, Signal(PidOf(c), "SIGTERM"))
    /\ timers' = Append(RemoveAt(timers, k), Timer("escalate", PidOf(c), GRACE_MS))
    /\ IF calls[c].pc = "race"
       THEN calls' = [calls EXCEPT ![c].pc = "unregRead", ![c].timedOut = TRUE,
                                   ![c].result = TimeoutText]
       ELSE calls' = [calls EXCEPT ![c].timedOut = TRUE]
    /\ UNCHANGED <<session, disk, children, procs>>
    /\ UNCHANGED notCalls

\* The 5-second timer of a timed-out child runs: SIGKILL when the pid is
\* still alive (relay.ts:535-543).
TimeoutEscalation(k) ==
    /\ k \in DOMAIN timers
    /\ timers[k].kind = "escalate"
    /\ Due(timers[k])
    /\ timers' = RemoveAt(timers, k)
    /\ IF kill0(timers[k].pid)
       THEN /\ sent' = Append(sent, Signal(timers[k].pid, "SIGKILL"))
            /\ procs' = [procs EXCEPT ![timers[k].pid] = "exited"]
       ELSE UNCHANGED <<sent, procs>>
    /\ UNCHANGED <<session, disk, children, calls>>
    /\ UNCHANGED notCalls

\* The session write lands; the finally block's unregisterChildPid awaits
\* loadChildPids (relay.ts:580-592, 310).
CallSessionSaved(c) ==
    /\ calls[c].pc = "sidSave"
    /\ disk' = calls[c].sbuf
    /\ calls' = [calls EXCEPT ![c].pc = "unregRead", ![c].sbuf = NoFile]
    /\ UNCHANGED <<session, children, procs, timers, sent>>
    /\ UNCHANGED notCalls

\* unregisterChildPid has read the registry: it awaits the write of the
\* array without the pid (relay.ts:310-311).
UnregisterRead(c) ==
    /\ calls[c].pc = "unregRead"
    /\ calls' = [calls EXCEPT
          ![c].pc = "unregWrite",
          ![c].pids = SelectSeq(loadChildPids, LAMBDA p : p # PidOf(c))]
    /\ UNCHANGED <<session, disk, children, procs, timers, sent>>
    /\ UNCHANGED notCalls

\* The write lands and callClaude returns (relay.ts:311, 592).
UnregisterWritten(c) ==
    /\ calls[c].pc = "unregWrite"
    /\ children' = File(calls[c].pids)
    /\ calls' = [calls EXCEPT ![c].pc = "returned", ![c].pids = <<>>]
    /\ UNCHANGED <<session, disk, procs, timers, sent>>
    /\ UNCHANGED notCalls

\* What bot.lock may hold when an instance is launched: nothing, an empty
\* text, a text that is no number, the pid of a process that is gone.
Markers == {NoFile, File(<<>>), File(<<"x">>), File(toString(StalePid))}

InitLock ==
    /\ InitRelay
    /\ lock \in Markers
    /\ inst = [i \in Instances |-> NotLaunched]
    /\ children = NoFile
    /\ procs = [p \in ChildPids |-> "none"]
    /\ timers = <<>>
    /\ calls = [c \in Calls |-> NoCall]
    /\ cleanup = CleanupIdle
    /\ sent = <<>>
    /\ supabase = FALSE
    /\ archive = <<>>

\* Instances launched against one RELAY_DIR, in any interleaving.
NextLock ==
    \E i \in Instances :
        \/ Launch(i)
        \/ LockRead(i)
        \/ LockProbe(i)
        \/ LockWritten(i)
        \/ ExitRefused(i)
        \/ Shutdown(i)
        \/ Notified(i)
        \/ RegistryCleared(i)
        \/ LockReleased(i)
        \/ Crash(i)

SpecLock == InitLock /\ [][NextLock]_vars

\* What children.json may hold when an instance starts: nothing, or up to
\* MaxRegistry pids of the previous run's children, some of them gone.
Registries ==
    {NoFile} \cup
    {File(pids) : pids \in UNION {[1..n -> ChildPids] : n \in 0..MaxRegistry}}

InitCleanup ==
    /\ InitRelay
    /\ lock = NoFile
    /\ inst = [i \in Instances |-> NotLaunched]
    /\ children \in Registries
    /\ procs \in [ChildPids -> {"running", "exited"}]
    /\ timers = <<>>
    /\ calls = [c \in Calls |-> NoCall]
    /\ cleanup = CleanupIdle
    /\ sent = <<>>
    /\ supabase = FALSE
    /\ archive = <<>>

\* One startup's orphan cleanup, while the orphans live or die and time
\* passes.
NextCleanup ==
    \/ CleanupStart
    \/ CleanupLoaded
    \/ CleanupSaved
    \/ \E k \in 1..(MaxRegistry + 1) : OrphanEscalation(k)
    \/ \E p \in ChildPids : ChildExits(p)
    \/ Elapse(GRACE_MS, MaxElapses * GRACE_MS)

SpecCleanup == InitCleanup /\ [][NextCleanup]_vars

InitClaude ==
    /\ now = 0
    /\ session \in {newSessionState(0), ResumedSession}
    /\ disk = session
    /\ tasks = [u \in Users |-> <<>>]
    /\ active = [u \in Users |-> FALSE]
    /\ disp = Poll
    /\ appended = <<>>
    /\ nTracked = 0
    /\ InitHost

\* The steps of one invocation.
CallSteps(c, sids) ==
    \/ \E internal \in BOOLEAN : Enter(c, internal)
    \/ Spawned(c)
    \/ SpawnFailed(c)
    \/ RegisterRead(c)
    \/ RegisterWritten(c)
    \/ \E outcome \in Outcomes, sid \in sids : OutputArrives(c, outcome, sid)
    \/ CallSessionSaved(c)
    \/ UnregisterRead(c)
    \/ UnregisterWritten(c)

\* Two invocations of callClaude (two users' requests, or a request and a
\* summary), in any interleaving.
NextClaude ==
    \/ \E c \in Calls : CallSteps(c, {NULL, "s1"})
    \/ \E p \in ChildPids : ChildExits(p)

SpecClaude == InitClaude /\ [][NextClaude]_vars

\* Two invocations made with every combination of the options resume and
\* internal.
NextOptions ==
    \/ \E c \in Calls, resume \in BOOLEAN, internal \in BOOLEAN :
          EnterWith(c, resume, internal)
    \/ \E c \in Calls : CallSteps(c, {NULL, "s1"})
    \/ \E p \in ChildPids : ChildExits(p)

SpecOptions == InitClaude /\ [][NextOptions]_vars

(* --------------------------------------------------------- archive task *)

notArchive == <<now, session, disk, tasks, active, disp, appended, nTracked,
                processVars, supabase>>

\* What a call to Supabase comes back with: a result without error, a result
\* with an error, a rejection.
Replies == {"ok", "error", "throws"}

\* Mutant of InsertReturned: a failed insert is made again.
InsertReturned_Retried(k, reply) ==
    /\ k \in DOMAIN archive
    /\ archive[k].pc = "insert"
    /\ archive[k].inserts <= 1
    /\ archive' = [archive EXCEPT
          ![k].pc = IF reply = "ok" THEN "summary" ELSE "insert",
          ![k].logged = reply # "ok",
          ![k].inserts = IF reply = "ok" THEN @ ELSE @ + 1,
          ![k].summaries = IF reply = "ok" THEN 1 ELSE 0]
    /\ UNCHANGED notArchive
\* The insert settles: with a row, the task awaits callClaude's summary;
\* with an error it logs and returns, and a rejection is caught and logged
\* (relay.ts:204-224, 233-235).
InsertReturned(k, reply) ==
    /\ k \in DOMAIN archive
    /\ archive[k].pc = "insert"
    /\ archive' = [archive EXCEPT
          ![k].pc = IF reply = "ok" THEN "summary" ELSE "done",
          ![k].logged = reply # "ok",
          ![k].summaries = IF reply = "ok" THEN 1 ELSE 0]
    /\ UNCHANGED notArchive

\* The internal callClaude returns its text, which may be an error or the
\* timeout text; the task awaits the update of the row (relay.ts:224-227).
SummaryReturned(k, text) ==
    /\ k \in DOMAIN archive
    /\ archive[k].pc = "summary"
    /\ archive' = [archive EXCEPT ![k].pc = "update", ![k].summary = text,
                                  ![k].updates = 1]
    /\ UNCHANGED notArchive

\* The update settles; an error or a rejection is logged (relay.ts:227-235).
UpdateReturned(k, reply) ==
    /\ k \in DOMAIN archive
    /\ archive[k].pc = "update"
    /\ archive' = [archive EXCEPT ![k].pc = "done",
                                  ![k].logged = reply # "ok"]
    /\ UNCHANGED notArchive

ArchiveSteps(k) ==
    \/ \E reply \in Replies : InsertReturned(k, reply)
    \/ \E text \in {"summary", TimeoutText} : SummaryReturned(k, text)
    \/ \E reply \in Replies : UpdateReturned(k, reply)

InitArchive ==
    /\ InitRelay
    /\ lock = NoFile
    /\ inst = [i \in Instances |-> NotLaunched]
    /\ children = NoFile
    /\ procs = [p \in ChildPids |-> "none"]
    /\ timers = <<>>
    /\ calls = [c \in Calls |-> NoCall]
    /\ cleanup = CleanupIdle
    /\ sent = <<>>
    /\ supabase \in BOOLEAN
    /\ archive = <<>>

\* One user's text messages and /new with Supabase configured or not, and
\* the archive tasks of the closes.
NextArchive ==
    \/ Handlers(Mot1, {"text"}, {<<"a">>})
    \/ \E i \in 1..MaxTasks : TaskSteps("8493500703", i, {NULL}, {<<"b">>})
    \/ NewSteps
    \/ \E k \in 1..MaxArchives : ArchiveSteps(k)

SpecArchive == InitArchive /\ [][NextArchive]_vars

\* Two users' text messages with Supabase configured: the closes at the
\* message limit and the records they hand to the archive.
InitSnapshot == InitArchive /\ supabase

NextSnapshot ==
    \/ \E u \in Users : Admit(u, "text", <<"a">>)
    \/ \E u \in Users, i \in 1..MaxTasks :
          TaskSteps(u, i, {NULL}, {<<"b">>})

SpecSnapshot == InitSnapshot /\ [][NextSnapshot]_vars

(* -------------------------------------------------------------- startup *)

\* The polling loop before bot.start (relay.ts:1083).
Stopped == [Poll EXCEPT !.pc = "stopped"]

\* TELEGRAM_BOT_TOKEN is not set, or autonomous mode is on and
\* CLAUDE_WORKING_DIR has no .git/config: process.exit(1), and the "exit"
\* handler unlinks the lock file (relay.ts:405-412, 420-432, 383-387).
ConfigRejected(i) ==
    /\ inst[i].pc = "off"
    /\ lock' = NoFile
    /\ inst' = [inst EXCEPT ![i].pc = "exited", ![i].code = 1]
    /\ UNCHANGED notLock

\* acquireLock has returned true: startup awaits cleanupOrphanedProcesses
\* (relay.ts:435-441).
StartupCleanup(i) ==
    /\ inst[i].pc = "running"
    /\ inst[i].ret
    /\ CleanupStart

\* Mutant of BotStart: the bot starts while the cleanup is under way.
BotStart_BeforeCleanup(i) ==
    /\ inst[i].pc = "running"
    /\ disp.pc = "stopped"
    /\ disp' = Poll
    /\ UNCHANGED <<now, session, disk, tasks, active, appended, nTracked>>
    /\ UNCHANGED hostVars
\* cleanupOrphanedProcesses has returned: the bot is made, the handlers are
\* registered and bot.start begins to poll (relay.ts:441-443, 1083-1088).
BotStart(i) ==
    /\ inst[i].pc = "running"
    /\ cleanup.pc = "done"
    /\ disp.pc = "stopped"
    /\ disp' = Poll
    /\ UNCHANGED <<now, session, disk, tasks, active, appended, nTracked>>
    /\ UNCHANGED hostVars

\* Instance 1 is about to be launched: the marker is missing, stale or
\* names instance 2, which runs; the registry may name a child of an
\* earlier run.
InitStartup ==
    /\ now = 0
    /\ session = newSessionState(0)
    /\ disk = NoFile
    /\ tasks = [u \in Users |-> <<>>]
    /\ active = [u \in Users |-> FALSE]
    /\ disp = Stopped
    /\ appended = <<>>
    /\ nTracked = 0
    /\ \/ /\ lock \in Markers
          /\ inst = [i \in Instances |-> NotLaunched]
       \/ /\ lock = File(toString(InstancePid(2)))
          /\ inst = [i \in Instances |->
                       IF i = 2
                       THEN [NotLaunched EXCEPT !.pc = "running", !.ret = TRUE]
                       ELSE NotLaunched]
    /\ children \in {NoFile, File(<<PidOf("c1")>>)}
    /\ procs \in [ChildPids -> {"running", "exited"}]
    /\ timers = <<>>
    /\ calls = [c \in Calls |-> NoCall]
    /\ cleanup = CleanupIdle
    /\ sent = <<>>
    /\ supabase = FALSE
    /\ archive = <<>>

\* The startup of instance 1 and the owner's messages.
NextStartup ==
    \/ Launch(1)
    \/ ConfigRejected(1)
    \/ LockRead(1)
    \/ LockProbe(1)
    \/ LockWritten(1)
    \/ ExitRefused(1)
    \/ StartupCleanup(1)
    \/ CleanupLoaded
    \/ CleanupSaved
    \/ BotStart(1)
    \/ Handlers(Mot1, {"text"}, {<<"a">>})
    \/ \E i \in 1..MaxTasks : TaskSteps("8493500703", i, {NULL}, {<<"b">>})
    \/ \E k \in 1..(MaxRegistry + 1) : OrphanEscalation(k)
    \/ \E p \in ChildPids : ChildExits(p)
    \/ Elapse(GRACE_MS, MaxElapses * GRACE_MS)

SpecStartup == InitStartup /\ [][NextStartup]_vars

\* The instance has started the bot and its process is alive: handlers and
\* the invocations they make go on while the signal handler awaits
\* (relay.ts:388-399).
Serving(i) == inst[i].pc \in {"running", "notify", "clear", "release"}

\* A step of an invocation made by this instance.
InvocationStep(i, c) ==
    /\ Serving(i)
    /\ CallSteps(c, {NULL, "s1"})

\* One instance starts, makes an invocation and is told to stop at any
\* point of it.
NextShutdown ==
    \/ Launch(1)
    \/ LockRead(1)
    \/ LockProbe(1)
    \/ LockWritten(1)
    \/ InvocationStep(1, "c1")
    \/ ChildExits(PidOf("c1"))
    \/ Shutdown(1)
    \/ Notified(1)
    \/ RegistryCleared(1)
    \/ LockReleased(1)

SpecShutdown == Init /\ [][NextShutdown]_vars

\* How far the clock goes in a step of d: a few steps of the grace time, a
\* step of the timeout, and a few more steps of the grace time after it.
Horizon(d) ==
    IF d = GRACE_MS /\ now < CLAUDE_TIMEOUT_MS
    THEN MaxElapses * GRACE_MS
    ELSE CLAUDE_TIMEOUT_MS + 2 * MaxElapses * GRACE_MS

\* One invocation and its timers, while time passes.
NextTimeout ==
    \/ CallSteps("c1", {NULL, "s1"})
    \/ \E k \in 1..2 : TimeoutFires("c1", k)
    \/ \E k \in 1..2 : TimeoutEscalation(k)
    \/ ChildExits(PidOf("c1"))
    \/ \E d \in {GRACE_MS, CLAUDE_TIMEOUT_MS} : Elapse(d, Horizon(d))

SpecTimeout == InitClaude /\ [][NextTimeout]_vars

\* The steps of callClaude and of its timers for one invocation whose child
\* may close its pipes one by one.
PipeSteps(c) ==
    \/ CallSteps(c, {NULL, "s1"})
    \/ StdoutRead(c)
    \/ StderrRead(c)
    \/ \E outcome \in Outcomes, sid \in {NULL, "s1"} : ExitRead(c, outcome, sid)
    \/ \E k \in 1..2 : TimeoutFires(c, k)
    \/ \E k \in 1..2 : TimeoutEscalation(k)

\* One invocation and its timers while time passes, with a child that
\* writes or not, closes its pipes or not, and exits or not.
NextPipes ==
    \/ PipeSteps("c1")
    \/ ChildExits(PidOf("c1"))
    \/ ChildCloses(PidOf("c1"))
    \/ \E d \in {GRACE_MS, CLAUDE_TIMEOUT_MS} : Elapse(d, Horizon(d))

SpecPipes == InitClaude /\ [][NextPipes]_vars

\* The same, where the event loop runs every continuation whose promise has
\* settled and every timer that is due, and the clock goes on; nothing is
\* asked of the child.
SpecPipesLive ==
    /\ SpecPipes
    /\ WF_vars(PipeSteps("c1"))
    /\ WF_vars(\E d \in {GRACE_MS, CLAUDE_TIMEOUT_MS} : Elapse(d, Horizon(d)))

(* ------------------------------------------------------------------ claims *)

EmptySession(s) ==
    /\ s.messageCount = 0
    /\ s.sessionId = NULL
    /\ s.transcript = <<>>
    /\ s.userIds = <<>>

RECURSIVE Flatten(_)
Flatten(entries) ==
    IF entries = <<>> THEN <<>> ELSE Head(entries) \o Flatten(Tail(entries))

\* Task i of user u takes the first step of trackMessage.
TrackStarts(u, i) ==
    /\ <<u, i>> \in TaskIds
    /\ AtTrackMessage(tasks[u][i])
    /\ i <= Len(tasks'[u])
    /\ tasks'[u][i].pc \in {"closing", "tracking"}

\* Task i of user u comes back from closeSession and records its message.
TrackResumes(u, i) ==
    /\ <<u, i>> \in TaskIds
    /\ tasks[u][i].pc = "closing"
    /\ i <= Len(tasks'[u])
    /\ tasks'[u][i].pc = "tracking"

AllTaskIds == Users \X (1..MaxTasks)

\* C1: in every reachable state the live session's messageCount is at most
\* SESSION_MAX_MESSAGES.
C1_CountAtMostMax == session.messageCount <= SESSION_MAX_MESSAGES

\* C2: the live session's messageCount equals the number of messages
\* trackMessage has recorded since the last close, whatever replies and
\* session ids were recorded in between.
C2_CountEqualsTracked == session.messageCount = nTracked

C2_Witness ==
    /\ nTracked = 2
    /\ session.messageCount = 2
    /\ session.sessionId # NULL
    /\ Entry(Assistant, <<"b">>) \in Range(appended)

\* C3: when closeSession returns (from /new, or inside trackMessage) the live
\* session and the persisted record are the empty session, and the count it
\* returns is the messageCount of the session it swapped out.
C3_CloseLeavesEmpty ==
    [][ /\ (disp.pc = "poll" /\ disp'.pc = "newSave")
            => disp'.ret = session.messageCount
        /\ (disp.pc = "newSave" /\ disp'.pc = "newReply")
            => EmptySession(session') /\ EmptySession(disk')
        /\ \A id \in AllTaskIds :
             /\ (TrackStarts(id[1], id[2]) /\ tasks'[id[1]][id[2]].pc = "closing")
                  => tasks'[id[1]][id[2]].ret = session.messageCount
             /\ TrackResumes(id[1], id[2])
                  => EmptySession(session) /\ EmptySession(disk')
      ]_vars

\* C4: the transcript is never longer than TRANSCRIPT_MAX_BYTES, whatever
\* the lengths of the entries appended.
C4_TranscriptWithinCap == Len(session.transcript) <= TRANSCRIPT_MAX_BYTES

C4_Witness ==
    /\ \E k \in 1..Len(appended) : Len(appended[k]) > TRANSCRIPT_MAX_BYTES
    /\ Len(appended) >= 2
    /\ Len(session.transcript) > 0

\* C5: the transcript is the concatenation of the last k entries appended
\* since the session opened, for some k: no entry is cut.
C5_WholeEntries ==
    \E k \in 1..(Len(appended) + 1) :
        session.transcript = Flatten(SubSeq(appended, k, Len(appended)))

\* C6: shouldCloseSession is "limit" exactly when messageCount >= max,
\* otherwise "idle" exactly when messageCount > 0 and the idle time exceeds
\* the timeout, otherwise null.
C6_ShouldClose ==
    LET idleMs == now - session.lastActivity
        atLimit == session.messageCount >= SESSION_MAX_MESSAGES
        isIdle == session.messageCount > 0 /\ idleMs > IDLE_TIMEOUT_MS
    IN  /\ atLimit => shouldCloseSession = "limit"
        /\ (~atLimit /\ isIdle) => shouldCloseSession = "idle"
        /\ (~atLimit /\ ~isIdle) => shouldCloseSession = NULL

C6_Witness ==
    /\ session.messageCount >= SESSION_MAX_MESSAGES
    /\ now - session.lastActivity > IDLE_TIMEOUT_MS
    /\ shouldCloseSession = "limit"

C8_IdleClose ==
    [][ \A id \in AllTaskIds :
          /\ ( /\ TrackStarts(id[1], id[2])
               /\ session.messageCount > 0
               /\ session.messageCount < SESSION_MAX_MESSAGES )
               => IF now - session.lastActivity > IDLE_TIMEOUT_MS
                  THEN /\ tasks'[id[1]][id[2]].pc = "closing"
                       /\ tasks'[id[1]][id[2]].reason = "idle"
                  ELSE /\ tasks'[id[1]][id[2]].pc = "tracking"
                       /\ session'.messageCount = session.messageCount + 1
          /\ ( /\ TrackResumes(id[1], id[2])
               /\ tasks[id[1]][id[2]].reason = "idle" )
               => session'.messageCount = 1
      ]_vars

\* C9: a message of a busy user is rejected with the busy reply and changes
\* nothing; a message of a user who is not busy (none yet, or released) is
\* admitted and marks the user busy in the same step; the flag is cleared
\* only by the end of the user's task.
C9_Gate ==
    /\ [](\A u \in Users :
            disp.pc = "poll" =>
              /\ active[u] => ENABLED Reject(u)
              /\ active[u] => ~ENABLED Admit(u, "text", <<"a">>)
              /\ ~active[u] => ENABLED Admit(u, "text", <<"a">>)
              /\ ~active[u] => ~ENABLED Reject(u))
    /\ [][ /\ (disp.pc = "poll" /\ disp'.pc = "busyReply")
              => /\ active[disp'.user]
                 /\ UNCHANGED <<now, session, disk, tasks, active>>
           /\ \A u \in Users :
                /\ Len(tasks'[u]) > Len(tasks[u]) => ~active[u] /\ active'[u]
                /\ (active[u] /\ ~active'[u]) => Len(tasks'[u]) < Len(tasks[u])
         ]_vars

C9_Witness ==
    /\ disp.pc = "busyReply"
    /\ active[disp.user]
    /\ session.messageCount >= 1

InFlight(t) == t.pc \in {"claude", "sidsave", "unregister"}

\* C10: no user has two assistant invocations in flight.
C10_OneInvocationPerUser ==
    \A u \in Users :
        Cardinality({i \in 1..Len(tasks[u]) : InFlight(tasks[u][i])}) <= 1

C10_Witness ==
    /\ disp.pc = "busyReply"
    /\ \E i \in 1..Len(tasks[disp.user]) :
          /\ InFlight(tasks[disp.user][i])
          /\ tasks[disp.user][i].kind = "photo"

(* ------------------------------------------------ claims: gate, continued *)

\* C11: while a user has an invocation in flight, a message of another user
\* who is not busy is admitted, it is never answered with the busy reply,
\* and the other user's task is never held back from its own invocation.
C11_NoCrossUserBlocking ==
    /\ [](\A a \in Users, b \in Users :
            ( /\ a # b
              /\ \E i \in 1..Len(tasks[a]) : InFlight(tasks[a][i])
              /\ ~active[b] )
            => /\ disp.pc = "poll" => ENABLED Admit(b, "text", <<"a">>)
               /\ ~ENABLED Reject(b))
    /\ [](\A a \in Users, b \in Users :
            ( /\ a # b
              /\ \E i \in 1..Len(tasks[a]) : InFlight(tasks[a][i])
              /\ Len(tasks[b]) >= 1 )
            => /\ tasks[b][1].pc = "typing" => ENABLED TrackMessage(b, 1)
               /\ tasks[b][1].pc = "prompt" => ENABLED CallClaude(b, 1))

C11_Witness ==
    \A u \in Users :
        /\ Len(tasks[u]) = 1
        /\ tasks[u][1].pc = "claude"

\* C12: a busy flag that is set is cleared in the end.
C12_FlagReleased == \A u \in Users : active[u] ~> ~active[u]

(* ---------------------------------------------------- claims: lock file *)

\* The marker names a process that is not alive.
NamesDeadProcess(m) ==
    /\ ~m.missing
    /\ parseInt(m.content) # NaN
    /\ ~kill0(parseInt(m.content))

\* The marker names a live relay instance other than i.
NamesLiveOwner(m, i) ==
    /\ ~m.missing
    /\ \E j \in Instances \ {i} :
          /\ parseInt(m.content) = InstancePid(j)
          /\ InstanceAlive(j)

\* C15: acquireLock that read a marker naming a dead process, or no marker,
\* goes on to write the marker, and when it returns it returns true and the
\* marker holds the caller's pid.
C15_LockTakeover ==
    [][ \A i \in Instances :
          /\ ( /\ inst[i].pc = "lockProbe"
               /\ inst'[i].pc # "lockProbe"
               /\ (inst[i].seen.missing \/ NamesDeadProcess(inst[i].seen)) )
               => inst'[i].pc = "lockWrite"
          /\ (inst[i].pc = "lockWrite" /\ inst'[i].pc # "lockWrite")
               => /\ inst'[i].pc = "running"
                  /\ inst'[i].ret = TRUE
                  /\ ~lock'.missing
                  /\ parseInt(lock'.content) = InstancePid(i)
      ]_vars

C15_Witness ==
    \E i \in Instances :
        /\ inst[i].pc = "running"
        /\ inst[i].ret = TRUE
        /\ inst[i].seen = File(toString(StalePid))
        /\ lock = File(toString(InstancePid(i)))

\* C16: at most one instance has passed acquireLock and is running.
C16_OneInstance ==
    Cardinality({i \in Instances : inst[i].pc = "running"}) <= 1

\* C17: an instance that read a marker naming a live instance is refused
\* (acquireLock returns false and it never runs), and its exit leaves the
\* marker as it was.
C17_RefusedLeavesMarker ==
    [][ \A i \in Instances :
          /\ ( /\ inst[i].pc = "lockProbe"
               /\ inst'[i].pc # "lockProbe"
               /\ NamesLiveOwner(inst[i].seen, i) )
               => inst'[i].pc = "refused" /\ inst'[i].ret = FALSE
          /\ inst[i].pc = "refused" => inst'[i].pc \in {"refused", "exited"}
          /\ (inst[i].pc = "refused" /\ inst'[i].pc = "exited")
               => lock' = lock
      ]_vars

(* ------------------------------------------------ claims: orphan cleanup *)

\* The signals of one kind sent to one pid.
SentTo(log, pid, sig) ==
    {k \in 1..Len(log) : log[k].pid = pid /\ log[k].sig = sig}

\* Every forceful kill in the log follows, by the grace time at least, a
\* graceful signal to the same pid.
GracefulFirst(log) ==
    \A k \in 1..Len(log) :
        log[k].sig = "SIGKILL"
        => \E j \in 1..(k - 1) :
              /\ log[j].pid = log[k].pid
              /\ log[j].sig = "SIGTERM"
              /\ log[j].at + GRACE_MS <= log[k].at

\* C14: cleanupOrphanedProcesses signals only recorded pids, and only pids
\* that are alive when it signals them; when it reads the registry every
\* recorded pid that is alive gets a SIGTERM and no dead one does; a SIGKILL
\* goes, 5 seconds after the SIGTERM at the earliest, to the pids still alive
\* when their timer runs and to no other; when the function has returned the
\* registry reads as empty.
C14_OrphanCleanup ==
    /\ [](/\ \A k \in 1..Len(sent) :
                sent[k].alive /\ \E n \in 1..Len(cleanup.pids) :
                                     cleanup.pids[n] = sent[k].pid
          /\ GracefulFirst(sent)
          /\ cleanup.pc = "done" => loadChildPids = <<>>)
    /\ [][ /\ (cleanup.pc = "load" /\ cleanup'.pc # "load")
                => \A p \in ChildPids :
                      Cardinality(SentTo(sent', p, "SIGTERM")) =
                        IF procs[p] = "running"
                        THEN Cardinality({n \in 1..Len(loadChildPids) :
                                             loadChildPids[n] = p})
                        ELSE 0
           /\ \A k \in 1..Len(timers) :
                (timers[k].kind = "orphan" /\ Len(timers') < Len(timers)
                    /\ timers' = RemoveAt(timers, k))
                => IF procs[timers[k].pid] = "running"
                   THEN sent' = Append(sent, Signal(timers[k].pid, "SIGKILL"))
                   ELSE sent' = sent
         ]_vars

C14_Witness ==
    /\ cleanup.pc = "done"
    /\ children = File(<<>>)
    /\ \E p \in ChildPids, q \in ChildPids :
          /\ p # q
          /\ cleanup.pids = <<p, q>>
          /\ SentTo(sent, p, "SIGKILL") # {}
          /\ SentTo(sent, q, "SIGTERM") = {}

(* --------------------------------------------------- claims: callClaude *)

\* C13: an invocation whose timeout ran returns the timeout text; the
\* timeout runs no sooner than CLAUDE_TIMEOUT_MS after it was set, sends
\* SIGTERM to the child at that moment and sets the 5-second timer; when that
\* timer runs, SIGKILL is sent if the child is still alive and nothing is
\* sent if it is not; every SIGKILL follows the SIGTERM by 5 s at least.
C13_Timeout ==
    /\ [](/\ \A c \in Calls :
                (calls[c].pc = "returned" /\ calls[c].timedOut)
                => calls[c].result = TimeoutText
          /\ GracefulFirst(sent))
    /\ [][ /\ \A c \in Calls :
                (~calls[c].timedOut /\ calls'[c].timedOut)
                => /\ calls[c].pc = "race"
                   /\ \E k \in 1..Len(timers) :
                         /\ timers[k].kind = "timeout"
                         /\ timers[k].pid = PidOf(c)
                         /\ timers[k].due <= now
                   /\ sent' = Append(sent, [pid |-> PidOf(c), sig |-> "SIGTERM",
                                            at |-> now,
                                            alive |-> procs[PidOf(c)] = "running"])
                   /\ \E k \in 1..Len(timers') :
                         timers'[k] = [kind |-> "escalate", pid |-> PidOf(c),
                                       due |-> now + GRACE_MS]
                   /\ \A k \in 1..Len(timers') : timers'[k].kind # "timeout"
           /\ \A k \in 1..Len(timers) :
                (timers[k].kind = "escalate" /\ timers' = RemoveAt(timers, k))
                => IF procs[timers[k].pid] = "running"
                   THEN sent' = Append(sent, [pid |-> timers[k].pid,
                                              sig |-> "SIGKILL", at |-> now,
                                              alive |-> TRUE])
                   ELSE sent' = sent
         ]_vars

C13_Witness ==
    /\ calls["c1"].pc = "returned"
    /\ calls["c1"].timedOut
    /\ calls["c1"].result = TimeoutText
    /\ SentTo(sent, PidOf("c1"), "SIGKILL") # {}

\* C18: the pid of an invocation that spawned a child and has returned is not
\* in the registry, and when every invocation has returned the registry is
\* empty.
C18_UnregisteredOnReturn ==
    /\ \A c \in Calls :
          (calls[c].pc = "returned" /\ procs[PidOf(c)] # "none")
          => PidOf(c) \notin Range(loadChildPids)
    /\ (\A c \in Calls : calls[c].pc = "returned") => loadChildPids = <<>>

\* C19: the pid of an invocation that awaits its child's output is in the
\* registry.
C19_RegisteredWhileAwaiting ==
    \A c \in Calls :
        calls[c].pc = "race" => PidOf(c) \in Range(loadChildPids)

\* C20: no step of an internal invocation changes the live session, whatever
\* its output; the output of an invocation that is not internal, when it is
\* a JSON record with a session_id, sets the live session's sessionId to it,
\* and the write that callClaude then awaits puts that session id on disk.
C20_SessionIdPropagation ==
    [][ \A c \in Calls :
          /\ (calls'[c] # calls[c] /\ calls'[c].internal) => session' = session
          /\ ( /\ calls[c].pc = "race"
               /\ calls'[c].pc # "race"
               /\ ~calls[c].internal
               /\ calls'[c].outcome = "json"
               /\ calls'[c].sid # NULL )
               => /\ session'.sessionId = calls'[c].sid
                  /\ session'.messageCount = session.messageCount
                  /\ session'.transcript = session.transcript
                  /\ session'.userIds = session.userIds
                  /\ calls'[c].pc = "sidSave"
          /\ (calls[c].pc = "sidSave" /\ calls'[c].pc # "sidSave")
               => disk'.sessionId = calls[c].sid
      ]_vars

C20_Witness ==
    \E c \in Calls, e \in Calls :
        /\ calls[c].pc = "returned"
        /\ calls[c].internal
        /\ calls[c].outcome = "json"
        /\ calls[c].sid = "s1"
        /\ session.sessionId = "s2"
        /\ calls[e].pc = "idle"

(* ------------------------------------------- claims: persistence, replies *)

\* A session operation has updated the session and awaits its write.
SessionOpInProgress ==
    \/ disp.pc = "newSave"
    \/ \E id \in TaskIds :
          tasks[id[1]][id[2]].pc \in {"closing", "tracking", "sidsave", "respsave"}

\* C21: whenever no session operation is in progress and session.json has
\* been written, it holds the in-memory session.
C21_DiskMatchesSession ==
    (~SessionOpInProgress /\ ~(disk = NoFile)) => disk = session

\* C26: every admitted request reaches a reply attempt: the delivery of the
\* assistant's text (or of callClaude's error or timeout text), or the
\* apology.
C26_ReplyAttempted ==
    \A u \in Users :
        (Len(tasks[u]) > 0)
        ~> (Len(tasks[u]) > 0 /\ tasks[u][1].pc \in {"send", "apology"})

(* ------------------------------------------------ claims: child outcomes *)

\* The step in which callClaude takes up the outcome of a child that has
\* exited.
TakesOutcome(c, outcomes) ==
    /\ calls[c].pc = "race"
    /\ calls'[c].pc # "race"
    /\ ~calls'[c].timedOut
    /\ calls'[c].outcome \in outcomes

\* C28: a child that exits with a nonzero status before the timeout makes
\* callClaude return "Error: " with the text of stderr, or with the exit
\* code message when stderr is empty, and the session's sessionId stays as
\* it is, also when stdout carries a record with a session_id.
C28_NonzeroExit ==
    /\ [][\A c \in Calls :
            TakesOutcome(c, {"nonzero", "silent"})
            => /\ calls'[c].result = IF calls'[c].outcome = "nonzero"
                                     THEN "Error: boom"
                                     ELSE "Error: Claude exited with code 2"
               /\ session'.sessionId = session.sessionId
               /\ calls'[c].pc = "unregRead"]_vars
    /\ [](\A c \in Calls :
            (calls[c].pc = "returned" /\ calls[c].outcome = "silent")
            => calls[c].result = "Error: Claude exited with code 2")
    /\ [](\A c \in Calls :
            (calls[c].pc = "returned" /\ calls[c].outcome = "nonzero")
            => calls[c].result = "Error: boom")

C28_Witness ==
    \E c, d \in Calls :
        /\ calls[c].pc = "returned"
        /\ calls[c].outcome = "nonzero"
        /\ calls[c].sid = "s1"
        /\ ~calls[c].internal
        /\ calls[d].pc = "returned"
        /\ calls[d].outcome = "silent"

\* C29: a child that exits with status 0 and an output that is no record
\* makes callClaude return the trimmed output, the session stays as it is
\* and callClaude returns.
C29_RawOutput ==
    /\ [][\A c \in Calls :
            TakesOutcome(c, {"raw", "scalar"})
            => /\ calls'[c].result = IF calls'[c].outcome = "raw"
                                     THEN "ok"
                                     ELSE "42"
               /\ session' = session
               /\ calls'[c].pc = "unregRead"]_vars
    /\ [](\A c \in Calls :
            (calls[c].pc = "returned" /\ calls[c].outcome = "raw")
            => calls[c].result = "ok")
    /\ [](\A c \in Calls :
            (calls[c].pc = "returned" /\ calls[c].outcome = "scalar")
            => calls[c].result = "42")

\* The part of C29 for an output on which JSON.parse throws.
C29_UnparseableOutput ==
    /\ [][\A c \in Calls :
            TakesOutcome(c, {"raw"})
            => /\ calls'[c].result = "ok"
               /\ session' = session
               /\ calls'[c].pc = "unregRead"]_vars
    /\ [](\A c \in Calls :
            (calls[c].pc = "returned" /\ calls[c].outcome = "raw")
            => calls[c].result = "ok")

\* What a call that has returned returns, from what happened to its child.
ResultFor(call) ==
    IF call.timedOut THEN TimeoutText
    ELSE IF call.outcome = NULL THEN SpawnErrorText
    ELSE ResultOf(call.outcome)

\* C30: every call has attempted exactly one append to the audit log once
\* it is under way, a child exists only after that attempt, a call that
\* awaits the append goes on to the spawn whether the append fails or not,
\* and what it returns does not depend on the append.
C30_AuditOnce ==
    \A c \in Calls :
        /\ calls[c].pc # "idle" => calls[c].audits = 1
        /\ procs[PidOf(c)] # "none" => calls[c].audits = 1
        /\ calls[c].pc = "audit"
           => \A ok \in BOOLEAN : ENABLED SpawnAfterAudit(c, ok)
        /\ calls[c].pc = "returned" => calls[c].result = ResultFor(calls[c])

C30_Witness ==
    \E c, d \in Calls :
        /\ calls[c].pc = "returned"
        /\ calls[c].internal
        /\ ~calls[c].auditOk
        /\ calls[c].outcome = "json"
        /\ calls[d].pc = "returned"
        /\ ~calls[d].auditOk
        /\ calls[d].outcome = NULL
        /\ ~calls[d].timedOut

(* ----------------------------------------------------- claims: allow-list *)

\* C25: with a non-empty allow-list, a user who is not on it never holds
\* the busy flag, never has a request in flight (so no invocation is spawned
\* for them), never becomes a participant of the session, and an update of
\* theirs can only be answered by the middleware: neither the message
\* handler nor /new can run for it.
C25_AllowList ==
    \A u \in Users \ OwnerOnly :
        /\ ~active[u]
        /\ tasks[u] = <<>>
        /\ \A k \in DOMAIN session.userIds : session.userIds[k] # u
        /\ disp.pc \in {"busyReply", "privateReply"}
           => (disp.user = u <=> disp.pc = "privateReply")
        /\ disp.pc = "poll"
           => /\ ENABLED Unauthorized(OwnerOnly, u)
              /\ ~ENABLED OnMessage(OwnerOnly, u, "text", <<"a">>)
              /\ ~ENABLED OnNew(OwnerOnly, u)

C25_Witness ==
    /\ disp.pc = "privateReply"
    /\ disp.user \notin OwnerOnly
    /\ session.messageCount > 0
    /\ \E u \in OwnerOnly : active[u]

(* -------------------------------------------------------- claims: restart *)

SavePcs == {"closing", "tracking", "sidsave", "respsave"}

\* C22: a step that changes the session starts a write of the new session,
\* the operation goes on only when that write has landed, and a restarted
\* instance has the fields of the record in session.json, or the fresh
\* session when the file is missing or does not parse.
C22_SurvivesRestart ==
    /\ [][session' # session
          => \/ \E torn \in BOOLEAN : Restart(torn)
             \/ \E u \in Users : \E i \in DOMAIN tasks'[u] :
                   /\ tasks'[u][i].pc \in SavePcs
                   /\ tasks'[u][i].buf = session']_vars
    /\ [][\A u \in Users : \A i \in DOMAIN tasks[u] :
            (/\ tasks[u][i].pc \in SavePcs
             /\ i \in DOMAIN tasks'[u]
             /\ tasks'[u][i].pc # tasks[u][i].pc)
            => disk' = tasks[u][i].buf]_vars
    /\ [][\A torn \in BOOLEAN :
            Restart(torn)
            => IF disk' = NoFile \/ disk' = Corrupt
               THEN session' = newSessionState(now)
               ELSE /\ \A f \in DOMAIN disk' : session'[f] = disk'[f]
                    /\ DOMAIN disk' = DOMAIN session' => session' = disk']_vars

C22_Witness ==
    /\ appended = <<>>
    /\ session.sessionId = "s1"
    /\ session.messageCount > 0
    /\ session = disk

(* ------------------------------------------------------- claims: shutdown *)

\* The signal handler's steps come in the order notify, clear the registry,
\* remove the marker, exit.
ShutdownInOrder ==
    [][\A i \in Instances :
          /\ (inst'[i].pc = "clear" /\ inst[i].pc # "clear")
             => inst[i].pc = "notify"
          /\ (inst'[i].pc = "release" /\ inst[i].pc # "release")
             => inst[i].pc = "clear" /\ children' = File(<<>>)
          /\ (inst'[i].pc = "exited" /\ inst[i].pc # "exited")
             => /\ inst[i].pc = "release"
                /\ lock' = NoFile
                /\ inst'[i].code = 0]_vars

\* C23: on SIGINT or SIGTERM the instance notifies the users, clears the
\* registry, removes the marker and exits, in that order, and once it has
\* exited the registry is empty and the marker is gone, also when an
\* invocation is in flight.
C23_Shutdown ==
    /\ ShutdownInOrder
    /\ [](\A i \in Instances :
            inst[i].pc = "exited"
            => lock = NoFile /\ loadChildPids = <<>>)

\* The part of C23 about the marker.
C23_MarkerGone ==
    /\ ShutdownInOrder
    /\ [](\A i \in Instances : inst[i].pc = "exited" => lock = NoFile)

(* -------------------------------------------------------- claims: startup *)

\* Some message has been taken up by a handler.
Handled ==
    \/ disp.pc \notin {"stopped", "poll"}
    \/ nTracked > 0
    \/ \E u \in Users : active[u] \/ tasks[u] # <<>>

\* C24: a message is handled only by an instance that has passed the
\* configuration checks, holds the lock and has finished the orphan
\* cleanup, in this order; an instance that exits during startup (token
\* missing, working directory invalid, lock refused) exits with status 1,
\* has handled no message and has not run the cleanup.
C24_StartupOrder ==
    /\ Handled => disp.pc # "stopped"
    /\ disp.pc # "stopped"
       => inst[1].pc = "running" /\ inst[1].ret /\ cleanup.pc = "done"
    /\ cleanup.pc # "idle" => inst[1].pc = "running" /\ inst[1].ret
    /\ inst[1].pc = "exited"
       => /\ inst[1].code = 1
          /\ ~Handled
          /\ disp.pc = "stopped"
          /\ cleanup.pc = "idle"
          /\ sent = <<>>

C24_Witness ==
    /\ nTracked > 0
    /\ \E k \in DOMAIN sent : sent[k].sig = "SIGTERM"
    /\ inst[1].seen = File(toString(StalePid))
    /\ lock = File(toString(InstancePid(1)))

(* -------------------------------------------------------- claims: archive *)

\* The step is closeSession's return after its write has landed.
CloseReturns ==
    \/ disp.pc = "newSave" /\ disp'.pc = "newReply"
    \/ \E u \in Users : \E i \in DOMAIN tasks[u] :
          /\ tasks[u][i].pc = "closing"
          /\ i \in DOMAIN tasks'[u]
          /\ tasks'[u][i].pc = "tracking"

\* The step is a step of an archive task.
ArchiveStep == archive' # archive /\ Len(archive') = Len(archive)

\* C27: closeSession returns with the closed session's message count in the
\* step in which its write lands, with the archive task it started still
\* awaiting the insert; a step of an archive task, failing or not, changes
\* neither the session nor session.json nor any handler's state; each of
\* insert, summary call and update is made at most once, a task that is
\* done stays as it is, and a failed insert or update is logged.
C27_ArchiveDetached ==
    /\ [][Len(archive') > Len(archive)
          => /\ CloseReturns
             /\ archive'[Len(archive')].pc = "insert"
             /\ disk' = newSessionState(disk'.startedAt)
             /\ (disp.pc = "newSave" /\ disp'.pc = "newReply")
                => disp'.ret = archive'[Len(archive')].message_count
             /\ \A u \in Users : \A i \in DOMAIN tasks[u] :
                   (tasks[u][i].pc = "closing" /\ tasks'[u][i].pc = "tracking")
                   => tasks'[u][i].ret
                         = archive'[Len(archive')].message_count]_vars
    /\ [][ArchiveStep
          => UNCHANGED <<session, disk, tasks, active, disp, calls>>]_vars
    /\ [][\A k \in DOMAIN archive :
            archive[k].pc = "done" => archive'[k] = archive[k]]_vars
    /\ [](\A k \in DOMAIN archive :
            /\ archive[k].inserts <= 1
            /\ archive[k].summaries <= 1
            /\ archive[k].updates <= 1
            /\ (archive[k].pc = "done" /\ archive[k].summaries = 0)
               => archive[k].logged)

C27_Witness ==
    \E k \in DOMAIN archive :
        /\ archive[k].pc = "done"
        /\ archive[k].summary = TimeoutText
        /\ archive[k].logged
        /\ archive[k].close_reason = "manual"
        /\ session.messageCount > 0

(* ------------------------------------------- claims: pipes and signals *)

\* C31: every invocation that awaits its child's output returns in the end,
\* whatever the child does: it writes nothing, it closes its standard output
\* and runs on, it leaves its standard error open.  (The invocation starts
\* early enough for its timers to fall within the clock's range.)
C31_EveryInvocationReturns ==
    \A c \in Calls :
        (calls[c].pc = "race" /\ now <= MaxElapses * GRACE_MS)
        ~> (calls[c].pc = "returned")

\* C32: the child of an invocation whose timeout has run is in the registry
\* for as long as it is alive.
C32_AliveIsRegistered ==
    \A c \in Calls :
        (calls[c].timedOut /\ Running(PidOf(c)))
        => PidOf(c) \in Range(loadChildPids)

\* The race of this invocation was won by the child's output.
OutputWon(c) ==
    \/ calls[c].pc \in {"stderr", "exit", "sidSave"}
    \/ /\ calls[c].pc \in {"unregRead", "unregWrite", "returned"}
       /\ calls[c].result \notin {TimeoutText, SpawnErrorText}

\* C40: once the output has won the race, no signal has been or is ever sent
\* to the child and no timer is set for it; a timeout is set only for an
\* invocation that awaits the race, and a timer for the forceful kill
\* exists only after the timeout's SIGTERM.
C40_NoSignalAfterOutput ==
    /\ \A c \in Calls :
          OutputWon(c)
          => /\ \A k \in 1..Len(sent) : sent[k].pid # PidOf(c)
             /\ \A k \in 1..Len(timers) : timers[k].pid # PidOf(c)
    /\ \A k \in 1..Len(timers) :
          /\ timers[k].kind = "timeout"
                => \E c \in Calls :
                      PidOf(c) = timers[k].pid /\ calls[c].pc = "race"
          /\ timers[k].kind = "escalate"
                => SentTo(sent, timers[k].pid, "SIGTERM") # {}

\* An invocation has returned its child's result, the clock is past the
\* timeout and the grace time, and nothing was sent.
C40_Witness ==
    /\ calls["c1"].pc = "returned"
    /\ calls["c1"].result = "result"
    /\ now >= CLAUDE_TIMEOUT_MS + GRACE_MS
    /\ sent = <<>>
    /\ timers = <<>>

\* C35: the step that enters callClaude puts --resume in the child's
\* arguments exactly when the resumption is asked for, the call is not
\* internal and the live session has a sessionId at that moment, and the
\* value is that sessionId; an internal call never has --resume.  The
\* arguments do not change afterwards.
C35_ResumeArgument ==
    [][ \A c \in Calls :
          /\ (calls[c].pc = "idle" /\ calls'[c].pc # "idle")
                => /\ (calls'[c].asked /\ ~calls'[c].internal)
                        => calls'[c].resume = session.sessionId
                   /\ (~calls'[c].asked \/ calls'[c].internal)
                        => calls'[c].resume = NULL
          /\ calls[c].pc # "idle" => calls'[c].resume = calls[c].resume
      ]_vars

\* A call that is not internal has passed the sessionId that an earlier
\* invocation stored, and an internal call made with resume asked for,
\* while the session had a sessionId, has passed none.
C35_Witness ==
    \E c \in Calls, e \in Calls :
        /\ calls[c].pc = "returned"
        /\ ~calls[c].internal
        /\ calls[c].resume = "s2"
        /\ calls[c].sid = "s1"
        /\ calls[e].pc = "returned"
        /\ calls[e].internal
        /\ calls[e].asked
        /\ calls[e].resume = NULL
        /\ session.sessionId = "s1"

(* ------------------------------------- claims: closes and in-flight work *)

\* C33: a session id that an invocation returns is stored only into the
\* session that holds the message the invocation was made for.  (With one
\* user the gate admits one request at a time, so nTracked is 0 when the id
\* is stored exactly when a close has come after the request's message was
\* recorded.)
C33_NoStaleSessionId ==
    [][ \A id \in AllTaskIds :
          ( /\ id \in TaskIds
            /\ tasks[id[1]][id[2]].pc = "claude"
            /\ id[2] <= Len(tasks'[id[1]])
            /\ tasks'[id[1]][id[2]].pc = "sidsave" )
          => nTracked > 0
      ]_vars

\* C34: a session with no message counted is empty: no transcript, no
\* sessionId, no participant.
C34_EmptyOrAccumulating ==
    session.messageCount = 0 => EmptySession(session)

\* C37: the step of trackResponse appends the reply to the transcript and
\* leaves messageCount, userIds, chatId, sessionId and the two timestamps
\* of the live session as they are, whatever the count and the idle time;
\* no archive task is started.
C37_ResponseFrame ==
    [][ \A id \in AllTaskIds :
          ( /\ id \in TaskIds
            /\ tasks[id[1]][id[2]].pc = "unregister"
            /\ id[2] <= Len(tasks'[id[1]])
            /\ tasks'[id[1]][id[2]].pc = "respsave" )
          => /\ session'.messageCount = session.messageCount
             /\ session'.userIds = session.userIds
             /\ session'.chatId = session.chatId
             /\ session'.sessionId = session.sessionId
             /\ session'.lastActivity = session.lastActivity
             /\ session'.startedAt = session.startedAt
             /\ session'.transcript =
                    Truncate(session.transcript
                               \o Entry(Assistant, tasks[id[1]][id[2]].resp))
             /\ archive' = archive
             /\ disk' = disk
      ]_vars

\* trackResponse has run on a session at the message limit that has been
\* idle for longer than the timeout, and the session is as it was.
C37_Witness ==
    \E id \in TaskIds :
        /\ tasks[id[1]][id[2]].pc = "respsave"
        /\ session.messageCount >= SESSION_MAX_MESSAGES
        /\ now - session.lastActivity > IDLE_TIMEOUT_MS
        /\ session.sessionId = "s1"

\* C38: the live session's count goes down only in the step that starts
\* trackMessage with a closure reason or in the step that starts /new; the
\* passing of time changes neither the session nor session.json, and while
\* no handler is at work no step changes the session.
C38_ClosesOnlyOnDemand ==
    [][ /\ session'.messageCount < session.messageCount
            => \/ \E id \in TaskIds :
                     /\ AtTrackMessage(tasks[id[1]][id[2]])
                     /\ id[2] <= Len(tasks'[id[1]])
                     /\ tasks'[id[1]][id[2]].pc = "closing"
               \/ disp.pc = "poll" /\ disp'.pc = "newSave"
        /\ now' # now
            => session' = session /\ disk' = disk /\ archive' = archive
        /\ ( /\ \A u \in Users : tasks[u] = <<>>
             /\ tasks' = tasks
             /\ disp = Poll
             /\ disp' = disp )
            => session' = session
      ]_vars

\* No handler is at work and the session, with a message in it, has been
\* idle for longer than the timeout: it is still open.
C38_Witness ==
    /\ \A u \in Users : tasks[u] = <<>>
    /\ disp = Poll
    /\ session.messageCount > 0
    /\ session.transcript # <<>>
    /\ now - session.lastActivity > IDLE_TIMEOUT_MS

(* ------------------------------------------- claims: order of a request *)

\* The places where a handler task is suspended, in the order of the code.
RequestOrder ==
    << "typing", "download", "closing", "tracking", "prompt", "claude",
       "sidsave", "unregister", "respsave", "send", "apology" >>
Rank(pc) == CHOOSE n \in 1..Len(RequestOrder) : RequestOrder[n] = pc

\* The entry trackMessage appends for the message of this task.
EntryOf(u, t) == Entry(UserNameOf(u), MessageText(t.kind, t.text))

\* C36: while a request is handled its user's busy flag is set; the request
\* is past trackMessage only with its message recorded in the session and
\* written out, so no invocation is made for a message not recorded; its
\* reply is being delivered only after trackResponse has recorded it; the
\* task only moves forward through the steps; and the flag is cleared in
\* the step that ends the task, after the delivery or the apology.
C36_RequestOrder ==
    /\ [](\A id \in TaskIds :
            LET u == id[1]
                t == tasks[id[1]][id[2]]
            IN  /\ active[u]
                /\ t.pc \in {"prompt", "claude", "sidsave", "unregister",
                              "respsave", "send"}
                      => /\ \E n \in 1..Len(appended) :
                               appended[n] = EntryOf(u, t)
                         /\ session.messageCount > 0
                         /\ disk # NoFile
                /\ t.pc \in {"respsave", "send"}
                      => /\ Len(appended) > 0
                         /\ appended[Len(appended)] = Entry(Assistant, t.resp)
                /\ t.pc = "send" => disk.transcript = session.transcript)
    /\ [][ \A u \in Users :
            /\ (Len(tasks[u]) = 1 /\ Len(tasks'[u]) = 1
                   /\ tasks'[u][1] # tasks[u][1])
                  => Rank(tasks'[u][1].pc) > Rank(tasks[u][1].pc)
            /\ (active[u] /\ ~active'[u])
                  => /\ Len(tasks[u]) = 1
                     /\ tasks[u][1].pc \in {"send", "apology"}
                     /\ tasks'[u] = <<>>
          ]_vars

\* A photo's reply is being delivered: message and reply are recorded, in
\* that order, and the flag is set.
C36_Witness ==
    \E id \in TaskIds :
        LET t == tasks[id[1]][id[2]]
        IN  /\ t.pc = "send"
            /\ t.kind = "photo"
            /\ active[id[1]]
            /\ Len(appended) >= 2
            /\ appended[Len(appended) - 1] = EntryOf(id[1], t)
            /\ appended[Len(appended)] = Entry(Assistant, t.resp)

(* ------------------------------------------------ claims: archive record *)

\* Task id takes closeSession's swap in this step.
Swaps(id) ==
    /\ id \in TaskIds
    /\ AtTrackMessage(tasks[id[1]][id[2]])
    /\ id[2] <= Len(tasks'[id[1]])
    /\ tasks'[id[1]][id[2]].pc = "closing"

\* Task id comes back from closeSession in this step.
Dispatches(id) ==
    /\ id \in TaskIds
    /\ tasks[id[1]][id[2]].pc = "closing"
    /\ id[2] <= Len(tasks'[id[1]])
    /\ tasks'[id[1]][id[2]].pc = "tracking"

====
